---- MODULE Spec2Model ----
(***************************************************************************)
(* A model of rusty-pelican, an in-memory key-value server: the typed data *)
(* engine (strings, lists, sorted sets), the RESP codec, the transaction   *)
(* log with replay, snapshots and the reader-writer state context.         *)
(*                                                                         *)
(* The program state lives in one record-valued variable, domain, which    *)
(* mirrors core::Domain = LoggedTransactions<Lifetimes<Dataset>>; the      *)
(* files of the data directory are the variables log and snapshots.        *)
(* A string that passes through the codec is the sequence of its           *)
(* characters, so that formatting, splitting and parsing are computed;     *)
(* keys and elements that only the data engine sees are atoms.             *)
(***************************************************************************)
EXTENDS Integers, Sequences, FiniteSets, TLC

VARIABLES
    domain,     \* core::Domain: strings, lists, sorted_sets, revision, ttls, expires, replaying
    log,        \* data/transactions.log: the sequence of LogEntry records
    snapshots,  \* data/snapshot-<N>.data: ordinal -> saved state
    now,        \* the wall clock (time::SystemTime::now())
    last,       \* the last data-engine call: its inputs, the state before it, its result
    codec,      \* the codec under test: message, wire image, decoded message
    clients,    \* per connection thread: program counter and locals
    lock,       \* the RwLock of the state context: writer and readers holding it
    recovery    \* the startup-recovery procedure: phase, replay position, state before restart

vars == <<domain, log, snapshots, now, last, codec, clients, lock, recovery>>

-----------------------------------------------------------------------------
(* Bounds of the model. *)

MaxEntries == 2

(* Finite maps (HashMap, BTreeMap) are functions with a finite domain. *)

EmptyMap == << >>

Put(f, k, v) == [x \in (DOMAIN f) \cup {k} |-> IF x = k THEN v ELSE f[x]]

Del(f, k) == [x \in (DOMAIN f) \ {k} |-> f[x]]

MinOf(S) == CHOOSE x \in S : \A y \in S : x <= y

MaxOf(S) == CHOOSE x \in S : \A y \in S : y <= x

-----------------------------------------------------------------------------
(* Sorted sets: core/domain/sorted_sets.rs *)

ZKeys == {"z1", "z2"}

(* The members, listed in lexicographic (BTreeSet<String>) order. *)
MemberSeq == <<"a", "b">>

Members == {MemberSeq[i] : i \in 1..Len(MemberSeq)}

(* Scores are f64 ordered by total_cmp; the model draws them from a small
   set of integers, on which total_cmp is the usual order. *)
Scores == {1, 2}

OrderedScoresNew == [member_to_score |-> EmptyMap, score_to_members |-> EmptyMap]

(* The BTreeMap entry API: insert the member into the bucket of the score,
   creating the bucket when there is none. *)
BucketInsert(s2m, score, member) ==
    IF score \in DOMAIN s2m
    THEN Put(s2m, score, s2m[score] \cup {member})
    ELSE Put(s2m, score, {member})

(* A slip of merge: the member is not taken out of the bucket of its old score. *)
merge_stale(xs, new_score, member) ==
    [xs |-> [member_to_score  |-> Put(xs.member_to_score, member, new_score),
             score_to_members |-> BucketInsert(xs.score_to_members, new_score, member)],
     panic |-> FALSE]

(* OrderedScores::merge; panic is TRUE when the call reaches the
   invariant-violation panic. *)
merge(xs, new_score, member) ==
    IF member \in DOMAIN xs.member_to_score
    THEN LET score == xs.member_to_score[member] IN
         IF score \in DOMAIN xs.score_to_members
         THEN LET members == xs.score_to_members[score]
                  removed == member \in members
                  rest    == members \ {member}
                  s2m1    == IF removed /\ rest = {}
                             THEN Del(xs.score_to_members, score)
                             ELSE Put(xs.score_to_members, score, rest)
              IN [xs |-> [member_to_score  |-> Put(xs.member_to_score, member, new_score),
                          score_to_members |-> BucketInsert(s2m1, new_score, member)],
                  panic |-> FALSE]
         ELSE [xs |-> xs, panic |-> TRUE]
    ELSE [xs |-> [member_to_score  |-> Put(xs.member_to_score, member, new_score),
                  score_to_members |-> BucketInsert(xs.score_to_members, new_score, member)],
          panic |-> FALSE]

(* entries.iter().for_each(|(score, member)| xs.merge(score, member)) *)
RECURSIVE MergeAll(_, _)
MergeAll(xs, entries) ==
    IF entries = << >>
    THEN [xs |-> xs, panic |-> FALSE]
    ELSE LET r == merge(xs, entries[1][1], entries[1][2]) IN
         IF r.panic THEN r ELSE MergeAll(r.xs, Tail(entries))

(* The members of one bucket in BTreeSet order. *)
BucketSeq(S) == SelectSeq(MemberSeq, LAMBDA m : m \in S)

(* score_to_members.iter().flat_map(...): the (score, member) pairs in
   ascending score order, each bucket in member order. *)
RECURSIVE Flatten(_)
Flatten(s2m) ==
    IF DOMAIN s2m = {}
    THEN << >>
    ELSE LET s == MinOf(DOMAIN s2m)
             b == BucketSeq(s2m[s])
         IN [i \in 1..Len(b) |-> <<s, b[i]>>] \o Flatten(Del(s2m, s))

(* enumerate(): each pair with its zero-based position. *)
Enumerate(ps) == [i \in 1..Len(ps) |-> <<i - 1, ps[i]>>]

(* skip(n).take(k) of an iterator. *)
SkipTake(s, n, k) == SubSeq(s, n + 1, IF n + k < Len(s) THEN n + k ELSE Len(s))

(* OrderedScores::range_by_rank, for start <= stop. *)
range_by_rank(xs, start, stop) ==
    SkipTake(Enumerate(Flatten(xs.score_to_members)), start, stop - start)

(* impl SortedSet for core::Domain: add. The options are not consulted. *)
add(d, key, entries, options) ==
    LET xs == IF key \in DOMAIN d.sorted_sets THEN d.sorted_sets[key] ELSE OrderedScoresNew
        r  == MergeAll(xs, entries)
    IN [domain |-> [d EXCEPT !.sorted_sets = Put(d.sorted_sets, key, r.xs)],
        ret    |-> Len(entries),
        panic  |-> r.panic]

(* impl SortedSet for core::Domain: range_by_rank; the members of the result. *)
domain_range_by_rank(d, key, start, stop) ==
    IF key \in DOMAIN d.sorted_sets
    THEN LET r == range_by_rank(d.sorted_sets[key], start, stop)
         IN [i \in 1..Len(r) |-> r[i][2][2]]
    ELSE << >>

-----------------------------------------------------------------------------
(* TTL index: ttl.rs *)

(* Expungeable::expunge of the dataset: the key leaves every typed map. *)
expunge(d, key) ==
    [d EXCEPT !.strings     = Del(d.strings, key),
              !.lists       = Del(d.lists, key),
              !.sorted_sets = Del(d.sorted_sets, key)]

(* Lifetimes::expunge_expired: pop the head of expires while it is due. *)
RECURSIVE expunge_expired(_, _)
expunge_expired(d, t) ==
    IF DOMAIN d.expires = {}
    THEN d
    ELSE LET at         == MinOf(DOMAIN d.expires)
             key        == d.expires[at]
             popped     == [d EXCEPT !.expires = Del(d.expires, at)]
             expires_at == IF key \in DOMAIN d.ttls THEN d.ttls[key] ELSE at
         IN IF expires_at < t
            THEN expunge_expired(expunge(popped, key), t)
            ELSE [popped EXCEPT !.expires = Put(popped.expires, expires_at, key)]

(* Lifetimes::register_ttl *)
register_ttl(d, key, t, ttl) ==
    LET at == t + ttl
    IN  [d EXCEPT !.ttls = Put(d.ttls, key, at), !.expires = Put(d.expires, at, key)]

(* Lifetimes::ttl_remaining: duration_since fails when the instant is past. *)
ttl_remaining(d, key, t) ==
    IF key \in DOMAIN d.ttls /\ d.ttls[key] >= t
    THEN [some |-> TRUE, value |-> d.ttls[key] - t]
    ELSE [some |-> FALSE]

-----------------------------------------------------------------------------
(* Lists: datatype/lists.rs *)

(* Stands for 2^64, the modulus of the cast of a negative i32 to usize;
   every index or length of the model is far below it. *)
UsizeModulus == 1073741824

AsUsize(x) == IF x < 0 THEN UsizeModulus + x ELSE x

(* The % of Rust on i32: the remainder has the sign of the dividend. *)
RustRem(a, b) == IF a >= 0 THEN a % b ELSE 0 - ((0 - a) % b)

Min(a, b) == IF a <= b THEN a ELSE b

(* Lists::length *)
length(d, key) == IF key \in DOMAIN d.lists THEN Len(d.lists[key]) ELSE 0

(* Lists::range. panic is TRUE when the call panics: the remainder by a
   zero length, or VecDeque::range with an end beyond the length. *)
range(d, key, start, stop) ==
    LET len == length(d, key) IN
    IF start >= len
    THEN [ret |-> << >>, panic |-> FALSE]
    ELSE IF len = 0
    THEN [ret |-> << >>, panic |-> TRUE]
    ELSE LET effective_start == AsUsize(RustRem(start + len, len))
             effective_stop  == IF stop < 0
                                THEN AsUsize(RustRem(stop + len, len) + 1)
                                ELSE AsUsize(Min(stop, len))
         IN IF effective_start <= effective_stop
            THEN IF effective_stop > len
                 THEN [ret |-> << >>, panic |-> TRUE]
                 ELSE [ret   |-> SubSeq(d.lists[key], effective_start + 1, effective_stop),
                       panic |-> FALSE]
            ELSE [ret |-> << >>, panic |-> FALSE]

(* Lists::append *)
append(d, key, element, to_existing, t) ==
    LET pushed == IF key \in DOMAIN d.lists
                  THEN [d EXCEPT !.lists = Put(d.lists, key, Append(d.lists[key], element))]
                  ELSE IF ~to_existing
                       THEN [d EXCEPT !.lists = Put(d.lists, key, <<element>>)]
                       ELSE d
        after  == expunge_expired(pushed, t)
    IN [domain |-> after, ret |-> length(after, key)]

(* prepend with push_back in place of push_front. *)
prepend_back(d, key, element, to_existing) ==
    LET pushed == IF key \in DOMAIN d.lists
                  THEN [d EXCEPT !.lists = Put(d.lists, key, Append(d.lists[key], element))]
                  ELSE IF ~to_existing
                       THEN [d EXCEPT !.lists = Put(d.lists, key, <<element>>)]
                       ELSE d
    IN [domain |-> pushed, ret |-> length(pushed, key)]

(* Lists::prepend *)
prepend(d, key, element, to_existing) ==
    LET pushed == IF key \in DOMAIN d.lists
                  THEN [d EXCEPT !.lists = Put(d.lists, key, <<element>> \o d.lists[key])]
                  ELSE IF ~to_existing
                       THEN [d EXCEPT !.lists = Put(d.lists, key, <<element>>)]
                       ELSE d
    IN [domain |-> pushed, ret |-> length(pushed, key)]

(* Lists::set_element; index is a usize, counted from 0. *)
set_element(d, key, index, element) ==
    IF key \in DOMAIN d.lists
    THEN [domain |-> IF index < Len(d.lists[key])
                     THEN [d EXCEPT !.lists[key][index + 1] = element]
                     ELSE d,
          ret |-> TRUE]
    ELSE [domain |-> d, ret |-> FALSE]

-----------------------------------------------------------------------------
(* The state of a freshly constructed domain and the idle values of the
   parts of the state a specification does not exercise. *)

InitDomain ==
    [strings |-> EmptyMap, lists |-> EmptyMap, sorted_sets |-> EmptyMap,
     revision |-> 0, ttls |-> EmptyMap, expires |-> EmptyMap, replaying |-> TRUE]

NoCall == [op |-> "none"]

IdleCodec == [phase |-> "idle"]

IdleRecovery == [phase |-> "idle"]

NoLock == [writer |-> "none", readers |-> {}]

SeqsUpTo(S, n) == UNION {[1..k -> S] : k \in 0..n}

-----------------------------------------------------------------------------
(* The sorted-set specification: calls of the SortedSet trait on a domain. *)

(* MergePolicy and Return of AddOptions. *)
MergePolicies ==
    {<<"Default">>, <<"Require", "AddNew">>, <<"Require", "UpdateExisting">>,
     <<"AddOrUpdate", "GreaterThan">>, <<"AddOrUpdate", "LessThan">>,
     <<"UpdateExisting", "GreaterThan">>, <<"UpdateExisting", "LessThan">>}

AddOptionsSet == [merge : MergePolicies, and_return : {"Added", "Changed"}]

EntryLists == SeqsUpTo(Scores \X Members, MaxEntries)

MaxRank == 2

ZInit ==
    /\ domain = InitDomain
    /\ log = << >>
    /\ snapshots = EmptyMap
    /\ now = 0
    /\ last = NoCall
    /\ codec = IdleCodec
    /\ clients = EmptyMap
    /\ lock = NoLock
    /\ recovery = IdleRecovery

ZAdd ==
    \E key \in ZKeys, entries \in EntryLists, options \in AddOptionsSet :
        LET r == add(domain, key, entries, options) IN
        /\ last = NoCall
        /\ domain' = r.domain
        /\ last' = [op |-> "add", key |-> key, entries |-> entries, options |-> options,
                    before |-> domain.sorted_sets, ret |-> r.ret, panic |-> r.panic]
        /\ UNCHANGED <<log, snapshots, now, codec, clients, lock, recovery>>

ZRangeByRank ==
    \E key \in ZKeys, start \in 0..MaxRank, stop \in 0..MaxRank :
        /\ start <= stop
        /\ last = NoCall
        /\ last' = [op |-> "range_by_rank", key |-> key, start |-> start, stop |-> stop,
                    ret |-> domain_range_by_rank(domain, key, start, stop)]
        /\ UNCHANGED <<domain, log, snapshots, now, codec, clients, lock, recovery>>

(* The caller takes the result of the call; the next call may start. *)
Return ==
    /\ last # NoCall
    /\ last' = NoCall
    /\ UNCHANGED <<domain, log, snapshots, now, codec, clients, lock, recovery>>

ZNext == ZAdd \/ ZRangeByRank \/ Return

SpecSortedSet == ZInit /\ [][ZNext]_vars

-----------------------------------------------------------------------------
(* Claims about sorted sets. *)

(* The two indices of one OrderedScores agree and no bucket is empty. *)
Consistent(xs) ==
    /\ \A m \in DOMAIN xs.member_to_score :
          /\ xs.member_to_score[m] \in DOMAIN xs.score_to_members
          /\ \A s \in DOMAIN xs.score_to_members :
                m \in xs.score_to_members[s] <=> s = xs.member_to_score[m]
    /\ \A s \in DOMAIN xs.score_to_members :
          /\ xs.score_to_members[s] # {}
          /\ \A m \in xs.score_to_members[s] :
                m \in DOMAIN xs.member_to_score /\ xs.member_to_score[m] = s

(* C1: after any sequence of merges on an initially empty OrderedScores,
   every member of member_to_score is in exactly one bucket of
   score_to_members, the bucket of its current score, every bucket member
   has that score in member_to_score, and no bucket is empty. *)
C1_IndicesConsistent ==
    \A key \in DOMAIN domain.sorted_sets : Consistent(domain.sorted_sets[key])

(* An add has moved a member out of a bucket, and some bucket holds two members. *)
C1_Witness ==
    /\ last.op = "add"
    /\ last.key \in DOMAIN last.before
    /\ \E m \in DOMAIN last.before[last.key].member_to_score :
          last.before[last.key].member_to_score[m]
             # domain.sorted_sets[last.key].member_to_score[m]
    /\ \E s \in DOMAIN domain.sorted_sets[last.key].score_to_members :
          Cardinality(domain.sorted_sets[last.key].score_to_members[s]) = 2

LexIx(m) == CHOOSE i \in 1..Len(MemberSeq) : MemberSeq[i] = m

(* The rank of a member: its zero-based position in ascending score order,
   equal scores in lexicographic member order. *)
RankOf(xs, m) ==
    Cardinality({p \in DOMAIN xs.member_to_score :
        \/ xs.member_to_score[p] < xs.member_to_score[m]
        \/ xs.member_to_score[p] = xs.member_to_score[m] /\ LexIx(p) < LexIx(m)})

(* C8: range_by_rank(key, start, stop) with 0 <= start <= stop returns
   exactly the members whose rank r satisfies start <= r <= stop, in rank
   order. *)
C8_RangeByRankInclusive ==
    (last.op = "range_by_rank" /\ last.key \in DOMAIN domain.sorted_sets) =>
        LET xs == domain.sorted_sets[last.key] IN
        /\ {last.ret[i] : i \in 1..Len(last.ret)}
              = {m \in DOMAIN xs.member_to_score :
                    last.start <= RankOf(xs, m) /\ RankOf(xs, m) <= last.stop}
        /\ \A i \in 1..Len(last.ret) : RankOf(xs, last.ret[i]) = last.start + i - 1

(* member_to_score of the set under the key of the last add, before and after it. *)
ScoresBefore ==
    IF last.key \in DOMAIN last.before
    THEN last.before[last.key].member_to_score
    ELSE EmptyMap

ScoresAfter == domain.sorted_sets[last.key].member_to_score

EntryMembers == {last.entries[i][2] : i \in 1..Len(last.entries)}

(* C9: without CH add returns the number of entries whose member was not
   in the set before the call; with CH it returns that number plus the
   number of existing members whose score changed. *)
C9_AddReturnsAddedOrChanged ==
    (last.op = "add") =>
        LET added   == {i \in 1..Len(last.entries) :
                           last.entries[i][2] \notin DOMAIN ScoresBefore}
            changed == {m \in EntryMembers \cap DOMAIN ScoresBefore :
                           ScoresAfter[m] # ScoresBefore[m]}
        IN IF last.options.and_return = "Changed"
           THEN last.ret = Cardinality(added) + Cardinality(changed)
           ELSE last.ret = Cardinality(added)

(* C10: add applies the merge policy of its options: with NX the score of
   a present member never changes, with XX no absent member is added, with
   GT (LT) the score of a present member changes only to a strictly greater
   (less) one; ZADD k XX GT s m on a set where m has score s returns 0 and
   leaves the score at s. *)
C10_AddAppliesMergePolicy ==
    (last.op = "add") =>
        LET policy == last.options.merge IN
        /\ policy = <<"Require", "AddNew">> =>
              \A m \in DOMAIN ScoresBefore : ScoresAfter[m] = ScoresBefore[m]
        /\ (policy = <<"Require", "UpdateExisting">> \/ policy[1] = "UpdateExisting") =>
              DOMAIN ScoresAfter \subseteq DOMAIN ScoresBefore
        /\ (Len(policy) = 2 /\ policy[2] = "GreaterThan") =>
              \A m \in DOMAIN ScoresBefore :
                 ScoresAfter[m] # ScoresBefore[m] => ScoresAfter[m] > ScoresBefore[m]
        /\ (Len(policy) = 2 /\ policy[2] = "LessThan") =>
              \A m \in DOMAIN ScoresBefore :
                 ScoresAfter[m] # ScoresBefore[m] => ScoresAfter[m] < ScoresBefore[m]
        /\ (/\ policy = <<"UpdateExisting", "GreaterThan">>
            /\ last.options.and_return = "Added"
            /\ Len(last.entries) = 1
            /\ last.entries[1][2] \in DOMAIN ScoresBefore
            /\ ScoresBefore[last.entries[1][2]] = last.entries[1][1]) =>
              (last.ret = 0 /\ ScoresAfter[last.entries[1][2]] = last.entries[1][1])

-----------------------------------------------------------------------------
(* The list specification: calls of the Lists trait on a domain. *)

MaxLen == 3
MaxIndex == 5

LKeys == {"l1", "l2"}

Elements == {"x", "y"}

Indices == (0 - MaxIndex)..MaxIndex

LInit == ZInit

LRest == <<log, snapshots, now, codec, clients, lock, recovery>>

LAppend ==
    \E key \in LKeys, element \in Elements, to_existing \in BOOLEAN :
        LET r == append(domain, key, element, to_existing, now) IN
        /\ last = NoCall
        /\ length(domain, key) < MaxLen
        /\ domain' = r.domain
        /\ last' = [op |-> "append", key |-> key, element |-> element,
                    to_existing |-> to_existing, before |-> domain.lists, ret |-> r.ret]
        /\ UNCHANGED LRest

LPrepend ==
    \E key \in LKeys, element \in Elements, to_existing \in BOOLEAN :
        LET r == prepend(domain, key, element, to_existing) IN
        /\ last = NoCall
        /\ length(domain, key) < MaxLen
        /\ domain' = r.domain
        /\ last' = [op |-> "prepend", key |-> key, element |-> element,
                    to_existing |-> to_existing, before |-> domain.lists, ret |-> r.ret]
        /\ UNCHANGED LRest

LSetElement ==
    \E key \in LKeys, index \in 0..MaxIndex, element \in Elements :
        LET r == set_element(domain, key, index, element) IN
        /\ last = NoCall
        /\ domain' = r.domain
        /\ last' = [op |-> "set_element", key |-> key, index |-> index,
                    element |-> element, before |-> domain.lists, ret |-> r.ret]
        /\ UNCHANGED LRest

LRange ==
    \E key \in LKeys, start \in Indices, stop \in Indices :
        LET r == range(domain, key, start, stop) IN
        /\ last = NoCall
        /\ last' = [op |-> "range", key |-> key, start |-> start, stop |-> stop,
                    ret |-> r.ret, panic |-> r.panic]
        /\ UNCHANGED <<domain, log, snapshots, now, codec, clients, lock, recovery>>

LNext == LAppend \/ LPrepend \/ LSetElement \/ LRange \/ Return

SpecLists == LInit /\ [][LNext]_vars

(* C6: for a non-empty list, range(key, start, stop) returns the elements
   from index start to index stop, both included, a negative index
   counting from the end: for 0 <= start <= stop < length the result has
   stop - start + 1 elements, and range(key, 0, -1) is the whole list. *)
C6_RangeInclusive ==
    (last.op = "range" /\ last.key \in DOMAIN domain.lists) =>
        LET list == domain.lists[last.key] IN
        /\ (0 <= last.start /\ last.start <= last.stop /\ last.stop < Len(list)) =>
              (/\ ~last.panic
               /\ last.ret = SubSeq(list, last.start + 1, last.stop + 1)
               /\ Len(last.ret) = last.stop - last.start + 1)
        /\ (last.start = 0 /\ last.stop = -1) => (~last.panic /\ last.ret = list)

(* C7: for every key, an absent one included, and all integers start and
   stop, range returns a result without failing: an absent key gives the
   empty sequence, a start beyond the end gives the empty sequence, and the
   result is a slice of the list. *)
C7_RangeNeverFails ==
    (last.op = "range") =>
        /\ ~last.panic
        /\ last.key \notin DOMAIN domain.lists => last.ret = << >>
        /\ last.key \in DOMAIN domain.lists =>
              LET list == domain.lists[last.key] IN
              /\ last.start >= Len(list) => last.ret = << >>
              /\ \E i \in 1..(Len(list) + 1), j \in 0..Len(list) :
                    last.ret = SubSeq(list, i, j)

-----------------------------------------------------------------------------
(* core/resp.rs: the RESP codec.  A String is the sequence of its          *)
(* characters; a Message is a record tagged by its variant.                *)

CRLF == <<"\r", "\n">>

Whitespace == {" ", "\r", "\n"}

DigitSeq == <<"0", "1", "2", "3", "4", "5", "6", "7", "8", "9">>

Digits == {DigitSeq[i] : i \in 1..Len(DigitSeq)}

DigitVal(c) == (CHOOSE i \in 1..Len(DigitSeq) : DigitSeq[i] = c) - 1

(* Display for integers: format!("{i}"). *)
RECURSIVE FormatNat(_)
FormatNat(n) ==
    IF n < 10 THEN <<DigitSeq[n + 1]>>
    ELSE FormatNat(n \div 10) \o <<DigitSeq[(n % 10) + 1]>>

FormatInt(i) == IF i < 0 THEN <<"-">> \o FormatNat(0 - i) ELSE FormatNat(i)

(* str::parse::<i32>() and ::<i64>(): an optional sign, then one or more   *)
(* decimal digits; anything else is an error.                              *)
RECURSIVE ParseNat(_)
ParseNat(s) ==
    IF s = <<>> THEN 0
    ELSE 10 * ParseNat(SubSeq(s, 1, Len(s) - 1)) + DigitVal(s[Len(s)])

ParseInt(s) ==
    LET signed == s # <<>> /\ s[1] \in {"+", "-"}
        digits == IF signed THEN Tail(s) ELSE s
    IN  IF digits = <<>> \/ \E i \in 1..Len(digits) : digits[i] \notin Digits
        THEN [ok |-> FALSE]
        ELSE [ok |-> TRUE,
              value |-> IF signed /\ s[1] = "-" THEN 0 - ParseNat(digits) ELSE ParseNat(digits)]

SimpleString(text) == [type |-> "SimpleString", text |-> text]

ErrorMessage(prefix, message) == [type |-> "Error", prefix |-> prefix, message |-> message]

Integer(i) == [type |-> "Integer", value |-> i]

BulkString(text) == [type |-> "BulkString", text |-> text]

Array(elements) == [type |-> "Array", elements |-> elements]

Nil == [type |-> "Nil"]

PrefixEmpty == [kind |-> "Empty"]

PrefixErr == [kind |-> "Err"]

PrefixNamed(name) == [kind |-> "Named", name |-> name]

(* ErrorPrefix::make *)
ErrorPrefixMake(prefix) == IF prefix = <<"E", "R", "R">> THEN PrefixErr ELSE PrefixNamed(prefix)

(* impl From<ErrorPrefix> for String *)
ErrorPrefixString(prefix) ==
    CASE prefix.kind = "Empty" -> <<>>
      [] prefix.kind = "Err"   -> <<"E", "R", "R">>
      [] prefix.kind = "Named" -> prefix.name

(* impl From<Message> for String: the encoder. *)
RECURSIVE encode(_)
encode(value) ==
    LET RECURSIVE Join(_)
        Join(xs) == IF xs = <<>> THEN <<>> ELSE encode(Head(xs)) \o Join(Tail(xs))
    IN  CASE value.type = "SimpleString" -> <<"+">> \o value.text \o CRLF
          [] value.type = "Error" ->
                <<"-">> \o ErrorPrefixString(value.prefix) \o <<" ">> \o value.message \o CRLF
          [] value.type = "Integer" -> <<":">> \o FormatInt(value.value) \o CRLF
          [] value.type = "BulkString" ->
                <<"$">> \o FormatInt(Len(value.text)) \o CRLF \o value.text \o CRLF
          [] value.type = "Array" ->
                <<"*">> \o FormatInt(Len(value.elements)) \o CRLF \o Join(value.elements)
          [] value.type = "Nil" -> <<"$", "-", "1">> \o CRLF

(* str::trim: strips leading and trailing white space. *)
RECURSIVE Trim(_)
Trim(s) ==
    IF s = <<>> THEN s
    ELSE IF s[1] \in Whitespace THEN Trim(Tail(s))
    ELSE IF s[Len(s)] \in Whitespace THEN Trim(SubSeq(s, 1, Len(s) - 1))
    ELSE s

(* str::find(' '): the index before the first space, or none (-1). *)
FindSpace(s) ==
    IF \E i \in 1..Len(s) : s[i] = " "
    THEN MinOf({i \in 1..Len(s) : s[i] = " "}) - 1
    ELSE 0 - 1

(* Message::parse_error *)
parse_error(line) ==
    LET ix == FindSpace(line)
    IN  IF ix >= 0
        THEN ErrorMessage(ErrorPrefixMake(Trim(SubSeq(line, 1, ix))),
                          Trim(SubSeq(line, ix + 1, Len(line))))
        ELSE ErrorMessage(PrefixEmpty, Trim(line))

(* Message::make_bulk_string *)
make_bulk_string(size, text) == IF size = 0 - 1 THEN Nil ELSE BulkString(text)

Literal(image) == [kind |-> "Literal", image |-> image]

(* Token::produce *)
TokenProduce(prefix, suffix, token_image) ==
    LET v == ParseInt(suffix)
    IN  CASE prefix = "+" -> [kind |-> "Trivial", parsed |-> SimpleString(suffix), image |-> token_image]
          [] prefix = "-" -> [kind |-> "Trivial", parsed |-> parse_error(suffix), image |-> token_image]
          [] prefix = ":" ->
                IF v.ok THEN [kind |-> "Trivial", parsed |-> Integer(v.value), image |-> token_image]
                ELSE Literal(token_image)
          [] prefix = "*" ->
                IF v.ok THEN [kind |-> "Array", parsed |-> v.value, image |-> token_image]
                ELSE Literal(token_image)
          [] prefix = "$" ->
                IF v.ok THEN [kind |-> "BulkString", parsed |-> v.value, image |-> token_image]
                ELSE Literal(token_image)
          [] OTHER -> Literal(token_image)

(* Token::parse *)
TokenParse(line) ==
    IF line = <<>> THEN Literal(<<>>) ELSE TokenProduce(line[1], Tail(line), line)

(* parser::parse_prefix and parser::parse_array: the result is Ok(message) *)
(* or Err with the tokens that remain.                                     *)
RECURSIVE parse_prefix(_), parse_array(_, _, _)
parse_array(count, input, output) ==
    IF count = 0 THEN [output |-> output, remaining |-> input]
    ELSE LET r == parse_prefix(input)
         IN  IF r.ok THEN parse_array(count - 1, r.rest, Append(output, r.message))
             ELSE [output |-> output, remaining |-> input]

parse_prefix(input) ==
    IF input = <<>> THEN [ok |-> FALSE, rest |-> input]
    ELSE LET head == input[1]
             tail == Tail(input)
         IN  CASE head.kind = "Trivial" -> [ok |-> TRUE, message |-> head.parsed, rest |-> tail]
               [] head.kind = "BulkString" /\ head.parsed = 0 - 1 ->
                     [ok |-> TRUE, message |-> Nil, rest |-> tail]
               [] head.kind = "BulkString" /\ head.parsed # 0 - 1 /\ Len(input) >= 2 ->
                     [ok |-> TRUE, message |-> make_bulk_string(head.parsed, input[2].image),
                      rest |-> Tail(tail)]
               [] head.kind = "Array" /\ head.parsed > 0 - 1 ->
                     LET r == parse_array(head.parsed, tail, <<>>)
                     IN  IF Len(r.output) = head.parsed
                         THEN [ok |-> TRUE, message |-> Array(r.output), rest |-> r.remaining]
                         ELSE [ok |-> FALSE, rest |-> input]
               [] head.kind = "Array" /\ head.parsed <= 0 - 1 ->
                     [ok |-> TRUE, message |-> Nil, rest |-> tail]
               [] OTHER -> [ok |-> FALSE, rest |-> input]

(* str::split("\r\n") *)
RECURSIVE SplitCRLF(_)
SplitCRLF(phrase) ==
    LET hits == {i \in 1..(Len(phrase) - 1) : phrase[i] = "\r" /\ phrase[i + 1] = "\n"}
    IN  IF hits = {} THEN <<phrase>>
        ELSE LET i == MinOf(hits)
             IN  <<SubSeq(phrase, 1, i - 1)>> \o SplitCRLF(SubSeq(phrase, i + 2, Len(phrase)))

(* parser::parse_message_phrase: the decoder (impl FromStr for Message). *)
parse_message_phrase(phrase) ==
    LET tokens == SplitCRLF(phrase)
        r == parse_prefix([i \in 1..Len(tokens) |-> TokenParse(tokens[i])])
    IN  IF r.ok THEN [ok |-> TRUE, message |-> r.message] ELSE [ok |-> FALSE]

-----------------------------------------------------------------------------
(* tx_log.rs: the transaction log.  A record of the file is its LogEntry:  *)
(* serde/bincode and base64 write the three fields and read them back, and *)
(* the base64 image holds no line break.                                   *)

(* Revision::default and Revision::succeeding *)
RevisionDefault == 0

(* A slip of succeeding: the revision moves by two. *)
succeeding_twice(revision) == revision + 2

succeeding(revision) == revision + 1

(* LogEntry::new *)
LogEntryNew(at, revision, message) ==
    [at |-> at, revision |-> revision, content |-> encode(message)]

(* LogFile::append *)
LogFileAppend(file, entry) == Append(file, entry)

(* record_evidence with the test of replaying inverted. *)
record_evidence_inverted(d, file, at, revision, message) ==
    IF d.replaying THEN LogFileAppend(file, LogEntryNew(at, revision, message)) ELSE file

(* WriteTransactionSink::record_evidence: the file after the call. *)
record_evidence(d, file, at, revision, message) ==
    IF ~d.replaying THEN LogFileAppend(file, LogEntryNew(at, revision, message)) ELSE file

(* finalize_replay that leaves the flag as it is. *)
finalize_replay_kept(d) == d

(* finalize_replay *)
finalize_replay(d) == [d EXCEPT !.replaying = FALSE]

(* Iterator::skip_while(|e| e.revision < since) *)
RECURSIVE SkipStale(_, _)
SkipStale(entries, since) ==
    IF entries # <<>> /\ Head(entries).revision < since
    THEN SkipStale(Tail(entries), since)
    ELSE entries

(* ReplayView::iter: the messages parsed from the entries left. *)
ReplayViewIter(file, since) ==
    LET kept == SkipStale(file, since)
    IN  [i \in 1..Len(kept) |-> parse_message_phrase(kept[i].content)]

-----------------------------------------------------------------------------
(* The codec specification: a message is encoded and decoded, directly or  *)
(* through a record of a fresh transaction log.                            *)

MaxArrayLen == 2

OK == <<"O", "K">>

SimpleTexts == {<<>>, OK}

BulkTexts ==
    {<<>>, <<"a">>, <<"$">>, <<"$", "1">>, <<"\r">>, <<"\n">>, CRLF, <<"a", "\r", "\n", "b">>}

ErrorPrefixes == {PrefixEmpty, PrefixErr, PrefixNamed(<<"W">>)}

Leaves ==
    {SimpleString(t) : t \in SimpleTexts}
    \cup {ErrorMessage(p, t) : p \in ErrorPrefixes, t \in {<<>>, <<"a">>}}
    \cup {Integer(i) : i \in {0 - 1, 0, 12}}
    \cup {BulkString(t) : t \in BulkTexts}
    \cup {Nil}

ElementLeaves == {Nil, Integer(0), BulkString(<<"a">>), SimpleString(OK)}

FlatArrays == {Array(xs) : xs \in SeqsUpTo(ElementLeaves, MaxArrayLen)}

InnerArrays ==
    {Array(<<>>), Array(<<Nil>>), Array(<<BulkString(<<"a">>), Integer(0)>>),
     Array(<<Array(<<>>)>>), BulkString(<<"a">>)}

NestedArrays == {Array(xs) : xs \in SeqsUpTo(InnerArrays, MaxArrayLen)}

Messages == Leaves \cup FlatArrays \cup NestedArrays

CRest == <<domain, snapshots, now, last, clients, lock, recovery>>

CEncode ==
    \E m \in Messages :
        /\ codec = IdleCodec
        /\ codec' = [phase |-> "encoded", msg |-> m, wire |-> encode(m)]
        /\ UNCHANGED <<log>> /\ UNCHANGED CRest

CDecode ==
    /\ codec.phase = "encoded"
    /\ codec' = [phase |-> "decoded", via |-> "wire", msg |-> codec.msg, wire |-> codec.wire,
                 decoded |-> parse_message_phrase(codec.wire)]
    /\ UNCHANGED <<log>> /\ UNCHANGED CRest

(* tests::log_entry and LogFile::append on a new file. *)
CLogAppend ==
    \E m \in Messages :
        /\ codec = IdleCodec
        /\ log' = LogFileAppend(log, LogEntryNew(now, RevisionDefault, m))
        /\ codec' = [phase |-> "logged", msg |-> m, wire |-> log'[Len(log')].content]
        /\ UNCHANGED CRest

(* log.replay(&Revision::default()).iter() *)
CReplay ==
    /\ codec.phase = "logged"
    /\ codec' = [phase |-> "decoded", via |-> "log", msg |-> codec.msg, wire |-> codec.wire,
                 decoded |-> ReplayViewIter(log, RevisionDefault)[Len(log)]]
    /\ UNCHANGED <<log>> /\ UNCHANGED CRest

(* The next message goes to a new file (tests::temp_file). *)
CReset ==
    /\ codec.phase = "decoded"
    /\ codec' = IdleCodec
    /\ log' = <<>>
    /\ UNCHANGED CRest

CNext == CEncode \/ CDecode \/ CLogAppend \/ CReplay \/ CReset

SpecCodec == ZInit /\ [][CNext]_vars

(* C5: decoding the encoding of a well-formed message yields the message,  *)
(* on the wire and through a record of the transaction log.                *)
C5_CodecRoundTrip ==
    codec.phase = "decoded" => codec.decoded = [ok |-> TRUE, message |-> codec.msg]

-----------------------------------------------------------------------------
(* commands.rs: the classification of a request message into a command.    *)

LPUSH == <<"L", "P", "U", "S", "H">>

LPUSHX == LPUSH \o <<"X">>

RPUSH == <<"R", "P", "U", "S", "H">>

RPUSHX == RPUSH \o <<"X">>

LLEN == <<"L", "L", "E", "N">>

SET == <<"S", "E", "T">>

GET == <<"G", "E", "T">>

(* Message::try_as_bulk_array *)
try_as_bulk_array(message) ==
    IF message.type = "Array"
       /\ \A i \in 1..Len(message.elements) : message.elements[i].type = "BulkString"
    THEN [some |-> TRUE, value |-> [i \in 1..Len(message.elements) |-> message.elements[i].text]]
    ELSE [some |-> FALSE]

(* A string literal of the source as the sequence of its characters. *)
Chars(literal) == [i \in 1..Len(literal) |-> SubSeq(literal, i, i)]

(* A word against the alternatives of a pattern such as "LLEN" | "llen". *)
Is(word, literals) == \E literal \in literals : word = Chars(literal)

(* Command::wrong_category *)
wrong_category ==
    [ok |-> FALSE, error |-> [kind |-> "InvalidInput", text |-> "Unknown or incomplete command."]]

(* Command::decode::<A> for the integer types: str::parse, its error as an *)
(* InvalidInput. A sign is accepted, '-' only by the signed types.         *)
decode(image, signed) ==
    IF image = <<>>
    THEN [ok |-> FALSE, error |-> [kind |-> "InvalidInput",
                                   text |-> "cannot parse integer from empty string"]]
    ELSE LET parsed == ParseInt(image) IN
         IF parsed.ok /\ (signed \/ image[1] # "-")
         THEN [ok |-> TRUE, value |-> parsed.value]
         ELSE [ok |-> FALSE, error |-> [kind |-> "InvalidInput",
                                        text |-> "invalid digit found in string"]]

(* [&str]::join(separator) *)
RECURSIVE JoinWith(_, _)
JoinWith(xs, separator) ==
    IF xs = <<>> THEN <<>>
    ELSE IF Len(xs) = 1 THEN xs[1]
    ELSE xs[1] \o separator \o JoinWith(Tail(xs), separator)

(* impl TryFrom<Message> for lists::ListApi *)
ListApiTryFrom(message) ==
    LET a == try_as_bulk_array(message)
        words == a.value
        n == Len(words)
        Push(variant, to_existing) ==
            [ok |-> TRUE, api |-> [variant |-> variant, key |-> words[2],
                                   elements |-> SubSeq(words, 3, n),
                                   to_existing |-> to_existing]]
    IN  IF ~a.some THEN wrong_category
        ELSE IF n = 4 /\ Is(words[1], {"LRANGE", "lrange"})
        THEN LET start == decode(words[3], TRUE)
                 stop  == decode(words[4], TRUE)
             IN  IF ~start.ok THEN start
                 ELSE IF ~stop.ok THEN stop
                 ELSE [ok |-> TRUE, api |-> [variant |-> "Range", key |-> words[2],
                                             start |-> start.value, stop |-> stop.value]]
        ELSE IF n >= 2 /\ Is(words[1], {"RPUSH", "rpush"})   THEN Push("Append", FALSE)
        ELSE IF n >= 2 /\ Is(words[1], {"RPUSHX", "rpushx"}) THEN Push("Append", TRUE)
        ELSE IF n >= 2 /\ Is(words[1], {"LPUSH", "lpush"})   THEN Push("Prepend", FALSE)
        ELSE IF n >= 2 /\ Is(words[1], {"LPUSHX", "lpushx"}) THEN Push("Prepend", TRUE)
        ELSE IF n = 2 /\ Is(words[1], {"LLEN", "llen"})
        THEN [ok |-> TRUE, api |-> [variant |-> "Length", key |-> words[2]]]
        ELSE IF n = 4 /\ Is(words[1], {"LSET", "lset"})
        THEN LET index == decode(words[3], FALSE) IN
             IF ~index.ok THEN index
             ELSE [ok |-> TRUE, api |-> [variant |-> "Set", key |-> words[2],
                                         index |-> index.value, element |-> words[4]]]
        ELSE wrong_category

(* impl TryFrom<Message> for keyvalues::StringsApi *)
StringsApiTryFrom(message) ==
    LET a == try_as_bulk_array(message)
        words == a.value
        n == Len(words)
    IN  IF ~a.some THEN wrong_category
        ELSE IF n = 3 /\ Is(words[1], {"SET", "set"})
        THEN [ok |-> TRUE, api |-> [variant |-> "Set", key |-> words[2], value |-> words[3]]]
        ELSE IF n = 2 /\ Is(words[1], {"GET", "get"})
        THEN [ok |-> TRUE, api |-> [variant |-> "Get", key |-> words[2]]]
        ELSE IF n >= 1 /\ Is(words[1], {"MGET", "mget"})
        THEN [ok |-> TRUE, api |-> [variant |-> "Mget", keys |-> SubSeq(words, 2, n)]]
        ELSE wrong_category

(* impl TryFrom<Message> for ConnectionManagement *)
ConnectionManagementTryFrom(message) ==
    LET a == try_as_bulk_array(message)
        words == a.value
        n == Len(words)
    IN  IF ~a.some THEN wrong_category
        ELSE IF n = 3 /\ Is(words[1], {"CLIENT", "client"}) /\ Is(words[2], {"SETNAME", "setname"})
        THEN [ok |-> TRUE, api |-> [variant |-> "SetClientName", name |-> words[3]]]
        ELSE IF n >= 1 /\ Is(words[1], {"PING"})
        THEN [ok |-> TRUE,
              api |-> [variant |-> "Ping",
                       message |-> IF n = 1 THEN Chars("PONG")
                                   ELSE JoinWith(SubSeq(words, 2, n), <<" ">>)]]
        ELSE IF n = 2 /\ Is(words[1], {"SELECT"})
        THEN LET index == decode(words[2], TRUE) IN
             IF ~index.ok THEN index
             ELSE [ok |-> TRUE, api |-> [variant |-> "SelectDatabase", index |-> index.value]]
        ELSE wrong_category

(* impl TryFrom<Message> for ServerManagement *)
ServerManagementTryFrom(message) ==
    LET a == try_as_bulk_array(message)
        words == a.value
        n == Len(words)
        Info(topic) == [ok |-> TRUE, api |-> [variant |-> "Info", topic |-> topic]]
    IN  IF ~a.some THEN wrong_category
        ELSE IF n = 2 /\ Is(words[1], {"COMMAND", "commands"}) /\ Is(words[2], {"DOCS", "docs"})
        THEN [ok |-> TRUE, api |-> [variant |-> "Command", option |-> "Docs"]]
        ELSE IF n = 1 /\ Is(words[1], {"COMMAND", "commands"})
        THEN [ok |-> TRUE, api |-> [variant |-> "Command", option |-> "Empty"]]
        ELSE IF n = 1 /\ Is(words[1], {"DBSIZE", "dbsize"})
        THEN [ok |-> TRUE, api |-> [variant |-> "DbSize"]]
        ELSE IF n = 2 /\ Is(words[1], {"INFO", "info"}) /\ Is(words[2], {"keyspace"})
        THEN Info([kind |-> "Keyspace"])
        ELSE IF n = 2 /\ Is(words[1], {"INFO", "info"}) /\ Is(words[2], {"server"})
        THEN Info([kind |-> "Server"])
        ELSE IF n = 2 /\ Is(words[1], {"INFO", "info"})
        THEN Info([kind |-> "Named", name |-> words[2]])
        ELSE IF n = 1 /\ Is(words[1], {"INFO", "info"})
        THEN Info([kind |-> "Named", name |-> Chars("topic.to_string()")])
        ELSE IF n = 1 /\ Is(words[1], {"BGSAVE", "bgsave"})
        THEN [ok |-> TRUE, api |-> [variant |-> "BgSave"]]
        ELSE wrong_category

(* impl TryFrom<Message> for Generic *)
GenericTryFrom(message) ==
    LET a == try_as_bulk_array(message)
        words == a.value
        n == Len(words)
        Scan(cursor, pattern, count) ==
            IF ~cursor.ok THEN cursor
            ELSE IF count.some /\ ~count.value.ok THEN count.value
            ELSE [ok |-> TRUE,
                  api |-> [variant |-> "Scan", cursor |-> cursor.value, pattern |-> pattern,
                           count |-> IF count.some
                                     THEN [some |-> TRUE, value |-> count.value.value]
                                     ELSE [some |-> FALSE],
                           tpe |-> [some |-> FALSE]]]
    IN  IF ~a.some THEN wrong_category
        ELSE IF n = 2 /\ Is(words[1], {"KEYS", "keys"})
        THEN [ok |-> TRUE, api |-> [variant |-> "Keys", pattern |-> words[2]]]
        ELSE IF n = 2 /\ Is(words[1], {"SCAN", "scan"})
        THEN Scan(decode(words[2], FALSE), [some |-> FALSE], [some |-> FALSE])
        ELSE IF n = 4 /\ Is(words[1], {"SCAN", "scan"}) /\ Is(words[3], {"COUNT", "count"})
        THEN Scan(decode(words[2], FALSE), [some |-> FALSE],
                  [some |-> TRUE, value |-> decode(words[4], FALSE)])
        ELSE IF n = 6 /\ Is(words[1], {"SCAN", "scan"}) /\ Is(words[3], {"MATCH", "match"})
                /\ Is(words[5], {"COUNT", "count"})
        THEN Scan(decode(words[2], FALSE), [some |-> TRUE, value |-> words[4]],
                  [some |-> TRUE, value |-> decode(words[6], FALSE)])
        ELSE IF n = 2 /\ Is(words[1], {"TTL", "ttl"})
        THEN [ok |-> TRUE, api |-> [variant |-> "Ttl", key |-> words[2]]]
        ELSE IF n = 3 /\ Is(words[1], {"EXPIRE", "expire"})
        THEN LET ttl == decode(words[3], FALSE) IN
             IF ~ttl.ok THEN ttl
             ELSE [ok |-> TRUE, api |-> [variant |-> "Expire", key |-> words[2], ttl |-> ttl.value]]
        ELSE IF n = 2 /\ Is(words[1], {"EXISTS", "exists"})
        THEN [ok |-> TRUE, api |-> [variant |-> "Exists", key |-> words[2]]]
        ELSE IF n = 2 /\ Is(words[1], {"TYPE", "type"})
        THEN [ok |-> TRUE, api |-> [variant |-> "Type", key |-> words[2]]]
        ELSE wrong_category

(* Command::unknown *)
unknown(message) ==
    LET a == try_as_bulk_array(message) IN
    IF a.some
    THEN [ok |-> TRUE, category |-> "Unknown", text |-> JoinWith(a.value, <<" ">>)]
    ELSE [ok |-> FALSE, category |-> "Error", error |-> wrong_category.error]

(* impl TryFrom<&Message> for Command: each classifier in turn, the next   *)
(* one on any error of the one before (or_else(|_| ..)), Command::unknown  *)
(* last.                                                                   *)
CommandTryFrom(message) ==
    LET l == ListApiTryFrom(message)
        k == StringsApiTryFrom(message)
        c == ConnectionManagementTryFrom(message)
        s == ServerManagementTryFrom(message)
        g == GenericTryFrom(message)
    IN  IF l.ok THEN [ok |-> TRUE, category |-> "Lists", api |-> l.api]
        ELSE IF k.ok THEN [ok |-> TRUE, category |-> "Strings", api |-> k.api]
        ELSE IF c.ok THEN [ok |-> TRUE, category |-> "ConnectionManagement", api |-> c.api]
        ELSE IF s.ok THEN [ok |-> TRUE, category |-> "ServerManagement", api |-> s.api]
        ELSE IF g.ok THEN [ok |-> TRUE, category |-> "Generic", api |-> g.api]
        ELSE unknown(message)

(* KeyValues::set *)
set(d, key, value, t) == expunge_expired([d EXCEPT !.strings = Put(d.strings, key, value)], t)

(* elements.iter().fold(0, |_, element| data.append(key, element, to_existing)) *)
RECURSIVE FoldAppend(_, _, _, _, _, _)
FoldAppend(d, key, elements, to_existing, t, acc) ==
    IF elements = <<>> THEN [domain |-> d, ret |-> acc]
    ELSE LET r == append(d, key, Head(elements), to_existing, t)
         IN  FoldAppend(r.domain, key, Tail(elements), to_existing, t, r.ret)

(* elements.iter().fold(0, |_, element| data.prepend(key, element, to_existing)) *)
RECURSIVE FoldPrepend(_, _, _, _, _)
FoldPrepend(d, key, elements, to_existing, acc) ==
    IF elements = <<>> THEN [domain |-> d, ret |-> acc]
    ELSE LET r == prepend(d, key, Head(elements), to_existing)
         IN  FoldPrepend(r.domain, key, Tail(elements), to_existing, r.ret)

(* The body a write command hands to apply_transaction: the domain it      *)
(* leaves and its response.                                                *)
WriteBody(d, command, t) ==
    LET api == command.api IN
    CASE command.category = "Lists" /\ api.variant = "Append" ->
            LET r == FoldAppend(d, api.key, api.elements, api.to_existing, t, 0)
            IN  [domain |-> r.domain, response |-> Integer(r.ret)]
      [] command.category = "Lists" /\ api.variant = "Prepend" ->
            LET r == FoldPrepend(d, api.key, api.elements, api.to_existing, 0)
            IN  [domain |-> r.domain, response |-> Integer(r.ret)]
      [] command.category = "Strings" /\ api.variant = "Set" ->
            [domain |-> set(d, api.key, api.value, t), response |-> SimpleString(OK)]
      [] command.category = "Lists" /\ api.variant = "Set" ->
            LET r == set_element(d, api.key, api.index, api.element)
            IN  [domain |-> r.domain,
                 response |-> IF r.ret THEN SimpleString(OK)
                              ELSE ErrorMessage(PrefixErr, Chars("Index out of range"))]
      [] command.category = "SortedSets" /\ api.variant = "Add" ->
            LET r == add(d, api.key, api.entries, api.options)
            IN  [domain |-> r.domain, response |-> Integer(r.ret)]
      [] command.category = "Generic" /\ api.variant = "Expire" ->
            [domain |-> register_ttl(d, api.key, t, api.ttl), response |-> Integer(1)]

IsWrite(command) ==
    \/ command.category = "Lists" /\ command.api.variant \in {"Append", "Prepend", "Set"}
    \/ command.category = "Strings" /\ command.api.variant = "Set"
    \/ command.category = "SortedSets" /\ command.api.variant = "Add"
    \/ command.category = "Generic" /\ command.api.variant = "Expire"

-----------------------------------------------------------------------------
(* The state context (core): apply_transaction, snapshots and startup      *)
(* recovery, as section 4.5 and 4.6 of the specification describe them.    *)

(* apply_transaction: run the body, capture the current revision, append   *)
(* the originating message to the log unless replaying, bump the revision. *)
apply_transaction(d, file, t, message, command) ==
    LET after    == WriteBody(d, command, t)
        revision == after.domain.revision
        file2    == record_evidence(after.domain, file, t, revision, message)
    IN  [domain |-> [after.domain EXCEPT !.revision = succeeding(revision)],
         log |-> file2, response |-> after.response]

(* The executor: classify the message and dispatch it. *)
Execute(d, file, t, message) ==
    LET command == CommandTryFrom(message)
    IN  IF IsWrite(command) THEN apply_transaction(d, file, t, message, command)
        ELSE [domain |-> d, log |-> file, response |-> Nil]

(* snapshots::most_recent and snapshots::allocate_new: ordinals. *)
most_recent(files) == IF DOMAIN files = {} THEN 0 - 1 ELSE MaxOf(DOMAIN files)

allocate_new(files) == most_recent(files) + 1

(* The structure a snapshot holds: the dataset and the TTL index. *)
Persistent(d) ==
    [strings |-> d.strings, lists |-> d.lists, sorted_sets |-> d.sorted_sets,
     revision |-> d.revision, ttls |-> d.ttls, expires |-> d.expires]

(* save_snapshot *)
save_snapshot(d, files) == Put(files, allocate_new(files), Persistent(d))

(* restore_most_recent_snapshot: absence is not an error. *)
restore_most_recent_snapshot(d, files) ==
    IF most_recent(files) < 0 THEN d
    ELSE LET image == files[most_recent(files)]
         IN  [strings |-> image.strings, lists |-> image.lists,
              sorted_sets |-> image.sorted_sets, revision |-> image.revision,
              ttls |-> image.ttls, expires |-> image.expires, replaying |-> d.replaying]

(* Startup recovery, step 2: the replay starts at baseline revision + 1. *)
ReplaySince(d) == succeeding(d.revision)

-----------------------------------------------------------------------------
(* The durability specification: one server process commits writes and     *)
(* saves snapshots; it stops, and a new process recovers from the data     *)
(* directory (the variables log and snapshots).                            *)

MaxWrites == 3

MaxSnapshots == 1

(* Message::make_bulk_array: the shape of every request. *)
make_bulk_array(xs) == Array([i \in 1..Len(xs) |-> BulkString(xs[i])])

WriteRequests ==
    {make_bulk_array(<<RPUSH, <<"k">>, <<"x">>>>),
     make_bulk_array(<<LPUSH, <<"k">>, <<"y">>>>),
     make_bulk_array(<<LPUSH, <<"k">>, <<"x">>, <<"y">>>>),
     make_bulk_array(<<SET, <<"s">>, <<"x">>>>),
     make_bulk_array(<<SET, <<"s">>, <<"y">>>>)}

(* The typed maps of the dataset. *)
Data(d) == [strings |-> d.strings, lists |-> d.lists, sorted_sets |-> d.sorted_sets]

DInit ==
    /\ domain = finalize_replay(InitDomain)
    /\ log = << >>
    /\ snapshots = EmptyMap
    /\ now = 0
    /\ last = NoCall
    /\ codec = IdleCodec
    /\ clients = EmptyMap
    /\ lock = NoLock
    /\ recovery = [phase |-> "running", since_save |-> 0]

DRest == <<now, last, codec, clients, lock>>

(* A connection handler executes one write request. *)
DWrite ==
    \E message \in WriteRequests :
        LET r == Execute(domain, log, now, message) IN
        /\ recovery.phase = "running"
        /\ Len(log) < MaxWrites
        /\ domain' = r.domain
        /\ log' = r.log
        /\ recovery' = [recovery EXCEPT !.since_save = @ + 1]
        /\ UNCHANGED snapshots /\ UNCHANGED DRest

(* ServerManagement::BgSave *)
DBgSave ==
    /\ recovery.phase = "running"
    /\ Cardinality(DOMAIN snapshots) < MaxSnapshots
    /\ snapshots' = save_snapshot(domain, snapshots)
    /\ recovery' = [recovery EXCEPT !.since_save = 0]
    /\ UNCHANGED <<domain, log>> /\ UNCHANGED DRest

(* The process stops and main starts again: a new, empty domain. *)
DRestart ==
    /\ recovery.phase = "running"
    /\ domain' = InitDomain
    /\ recovery' = [phase |-> "restoring", before |-> Data(domain),
                    expected |-> recovery.since_save, replayed |-> 0, queue |-> <<>>]
    /\ UNCHANGED <<log, snapshots>> /\ UNCHANGED DRest

(* Recovery steps 1 and 2: restore the snapshot, open the replay view. *)
DRestore ==
    /\ recovery.phase = "restoring"
    /\ domain' = restore_most_recent_snapshot(domain, snapshots)
    /\ recovery' = [recovery EXCEPT !.phase = "replaying",
                                    !.queue = ReplayViewIter(log, ReplaySince(domain'))]
    /\ UNCHANGED <<log, snapshots>> /\ UNCHANGED DRest

(* The executor re-dispatches one replayed message. *)
DReplay ==
    /\ recovery.phase = "replaying"
    /\ recovery.queue # <<>>
    /\ LET m == Head(recovery.queue)
           r == IF m.ok THEN Execute(domain, log, now, m.message)
                ELSE [domain |-> domain, log |-> log]
       IN  /\ domain' = r.domain
           /\ log' = r.log
    /\ recovery' = [recovery EXCEPT !.queue = Tail(@), !.replayed = @ + 1]
    /\ UNCHANGED snapshots /\ UNCHANGED DRest

(* Recovery step 3: finalize_replay. *)
DFinalize ==
    /\ recovery.phase = "replaying"
    /\ recovery.queue = <<>>
    /\ domain' = finalize_replay(domain)
    /\ recovery' = [recovery EXCEPT !.phase = "recovered"]
    /\ UNCHANGED <<log, snapshots>> /\ UNCHANGED DRest

DNext == DWrite \/ DBgSave \/ DRestart \/ DRestore \/ DReplay \/ DFinalize

SpecDurability == DInit /\ [][DNext]_vars

(* C2: after a restart the recovered dataset is the one before the         *)
(* restart, and the writes replayed are exactly those committed since the  *)
(* snapshot (all of them when there is none).                              *)
C2_RecoveryRestoresDataset ==
    recovery.phase = "recovered" =>
        /\ Data(domain) = recovery.before
        /\ recovery.replayed = recovery.expected

-----------------------------------------------------------------------------
(* The concurrency specification: connection threads share the state       *)
(* context.  A writer runs apply_transaction step by step under the        *)
(* exclusive guard; a reader reads under the shared guard.                 *)

MaxCommands == 2

MaxReads == 1

Writers == {"w1", "w2"}

Readers == {"r1"}

ListKey == <<"k">>

(* The element a writer pushes tells the writers apart. *)
ElementOf(w) == IF w = "w1" THEN <<"x">> ELSE <<"y">>

Requests(w) ==
    {make_bulk_array(<<LPUSH, ListKey, ElementOf(w)>>),
     make_bulk_array(<<LPUSH, ListKey, ElementOf(w), <<"z">>>>),
     make_bulk_array(<<RPUSH, ListKey, ElementOf(w), <<"z">>>>)}

(* The body of lists::apply for one element of Append or Prepend. *)
PushElement(d, api, element, t) ==
    IF api.variant = "Append"
    THEN append(d, api.key, element, api.to_existing, t).domain
    ELSE prepend(d, api.key, element, api.to_existing).domain

RECURSIVE Reverse(_)
Reverse(xs) == IF xs = <<>> THEN xs ELSE Reverse(Tail(xs)) \o <<Head(xs)>>

(* The list a whole RPUSH or LPUSH leaves: every element at the tail, or   *)
(* every element in turn at the head.                                      *)
Committed(list, api) ==
    IF api.variant = "Append" THEN list \o api.elements ELSE Reverse(api.elements) \o list

KInit ==
    /\ domain = finalize_replay(InitDomain)
    /\ log = << >>
    /\ snapshots = EmptyMap
    /\ now = 0
    /\ last = NoCall
    /\ codec = IdleCodec
    /\ clients = [c \in Writers \cup Readers |-> [pc |-> "idle", done |-> 0]]
    /\ lock = [writer |-> "none", readers |-> {}, acquired |-> <<>>, stable |-> <<>>]
    /\ recovery = IdleRecovery

KRest == <<snapshots, now, last, codec, recovery>>

(* apply_transaction: the handler classifies its request and acquires the  *)
(* exclusive guard.                                                        *)
KBeginWrite(w) ==
    \E message \in Requests(w) :
        LET api == CommandTryFrom(message).api IN
        /\ clients[w].pc = "idle"
        /\ clients[w].done < MaxCommands
        /\ lock.writer = "none" /\ lock.readers = {}
        /\ lock' = [lock EXCEPT !.writer = w, !.acquired = Append(@, message)]
        /\ clients' = [clients EXCEPT ![w] =
                          [pc |-> "body", done |-> @.done, message |-> message, api |-> api,
                           remaining |-> api.elements]]
        /\ UNCHANGED <<domain, log>> /\ UNCHANGED KRest

(* The body folds one element into the list. *)
KPush(w) ==
    /\ clients[w].pc = "body"
    /\ clients[w].remaining # <<>>
    /\ domain' = PushElement(domain, clients[w].api, Head(clients[w].remaining), now)
    /\ clients' = [clients EXCEPT ![w].remaining = Tail(@)]
    /\ UNCHANGED <<log, lock>> /\ UNCHANGED KRest

(* The body has returned: capture the current revision. *)
KCapture(w) ==
    /\ clients[w].pc = "body"
    /\ clients[w].remaining = <<>>
    /\ clients' = [clients EXCEPT ![w] =
                      [pc |-> "append", done |-> @.done, message |-> @.message, api |-> @.api,
                       revision |-> domain.revision]]
    /\ UNCHANGED <<domain, log, lock>> /\ UNCHANGED KRest

(* Append the originating message to the log. *)
KAppendLog(w) ==
    /\ clients[w].pc = "append"
    /\ log' = record_evidence(domain, log, now, clients[w].revision, clients[w].message)
    /\ clients' = [clients EXCEPT ![w].pc = "bump"]
    /\ UNCHANGED <<domain, lock>> /\ UNCHANGED KRest

(* Bump the revision. *)
KBump(w) ==
    /\ clients[w].pc = "bump"
    /\ domain' = [domain EXCEPT !.revision = succeeding(clients[w].revision)]
    /\ clients' = [clients EXCEPT ![w].pc = "release"]
    /\ UNCHANGED <<log, lock>> /\ UNCHANGED KRest

(* Release the exclusive guard. *)
KRelease(w) ==
    /\ clients[w].pc = "release"
    /\ lock' = [lock EXCEPT !.writer = "none", !.stable = Committed(@, clients[w].api)]
    /\ clients' = [clients EXCEPT ![w] = [pc |-> "idle", done |-> @.done + 1]]
    /\ UNCHANGED <<domain, log>> /\ UNCHANGED KRest

(* for_reading: the shared guard is granted while no writer holds the lock. *)
KBeginRead(r) ==
    /\ clients[r].pc = "idle"
    /\ clients[r].done < MaxReads
    /\ lock.writer = "none"
    /\ lock' = [lock EXCEPT !.readers = @ \cup {r}]
    /\ clients' = [clients EXCEPT ![r].pc = "reading"]
    /\ UNCHANGED <<domain, log>> /\ UNCHANGED KRest

(* ListApi::Length and ListApi::Range(key, 0, -1) under the shared guard. *)
KRead(r) ==
    /\ clients[r].pc = "reading"
    /\ clients' = [clients EXCEPT ![r] =
                      [pc |-> "read", done |-> @.done,
                       llen |-> length(domain, ListKey),
                       lrange |-> range(domain, ListKey, 0, 0 - 1).ret]]
    /\ UNCHANGED <<domain, log, lock>> /\ UNCHANGED KRest

(* The shared guard is dropped at the end of the handler. *)
KEndRead(r) ==
    /\ clients[r].pc = "read"
    /\ lock' = [lock EXCEPT !.readers = @ \ {r}]
    /\ clients' = [clients EXCEPT ![r] = [pc |-> "idle", done |-> @.done + 1]]
    /\ UNCHANGED <<domain, log>> /\ UNCHANGED KRest

KWriter == \E w \in Writers :
    KBeginWrite(w) \/ KPush(w) \/ KCapture(w) \/ KAppendLog(w) \/ KBump(w) \/ KRelease(w)

KReader == \E r \in Readers : KBeginRead(r) \/ KRead(r) \/ KEndRead(r)

KNext == KWriter \/ KReader

SpecConcurrency == KInit /\ [][KNext]_vars

(* Every writer has issued its MaxCommands commands and holds nothing. *)
AllWritten == \A w \in Writers : clients[w].pc = "idle" /\ clients[w].done = MaxCommands

SingleLPush(message) ==
    \E w \in Writers : message = make_bulk_array(<<LPUSH, ListKey, ElementOf(w)>>)

(* C3: the log holds the committed commands in the order in which their    *)
(* writers acquired the exclusive lock, with contiguous, strictly          *)
(* increasing revisions; when C writers have each issued W single-element  *)
(* LPUSH commands, the list has C*W elements and the log C*W entries.      *)
C3_WritersSerialized ==
    /\ Len(log) <= Len(lock.acquired)
    /\ \A i \in 1..Len(log) :
          /\ log[i].content = encode(lock.acquired[i])
          /\ i > 1 => log[i].revision = log[i - 1].revision + 1
    /\ (AllWritten /\ \A i \in 1..Len(lock.acquired) : SingleLPush(lock.acquired[i])) =>
          /\ length(domain, ListKey) = Cardinality(Writers) * MaxCommands
          /\ Len(log) = Cardinality(Writers) * MaxCommands

C3_Witness ==
    /\ AllWritten
    /\ \A i \in 1..Len(lock.acquired) : SingleLPush(lock.acquired[i])
    /\ Len(log) = Cardinality(Writers) * MaxCommands
    /\ log[1].content # log[2].content
    /\ log[2].content # log[3].content

(* C4: what a reader sees under the shared guard is the list as whole      *)
(* commands left it: of the n elements of a push, none or all.             *)
C4_ReaderSeesWholePush ==
    \A r \in Readers :
        clients[r].pc = "read" =>
            /\ clients[r].lrange = lock.stable
            /\ clients[r].llen = Len(lock.stable)

C4_Witness ==
    \E r \in Readers, w \in Writers :
        /\ clients[r].pc = "read"
        /\ clients[r].llen >= 2
        /\ \E i \in 1..Len(lock.acquired) : ~SingleLPush(lock.acquired[i])
        /\ clients[w].done < MaxCommands

-----------------------------------------------------------------------------
(* globs.rs: a Glob is the regular expression "^" + pattern with every '*' *)
(* replaced by ".+" + "$".  The regular expressions of the model are those *)
(* over literal characters, '.' and the quantifier '+'.                    *)

(* String::replace('*', ".+"), insert(0, '^'), push('$') *)
RECURSIVE ReplaceStar(_)
ReplaceStar(pattern) ==
    IF pattern = <<>> THEN <<>>
    ELSE (IF Head(pattern) = "*" THEN <<".", "+">> ELSE <<Head(pattern)>>)
         \o ReplaceStar(Tail(pattern))

GlobNew(pattern) == <<"^">> \o ReplaceStar(pattern) \o <<"$">>

(* regex: an atom matches one character; '.' is any character but \n. *)
AtomMatches(atom, c) == IF atom = "." THEN c # "\n" ELSE c = atom

(* regex: the expression from position i matches the text from position j *)
(* up to its end ('$').                                                    *)
RECURSIVE RegexMatchFrom(_, _, _, _)
RegexMatchFrom(re, i, text, j) ==
    IF re[i] = "$" THEN j = Len(text) + 1
    ELSE IF re[i + 1] = "+"
    THEN \E k \in 1..(Len(text) - j + 1) :
            /\ \A n \in j..(j + k - 1) : AtomMatches(re[i], text[n])
            /\ RegexMatchFrom(re, i + 2, text, j + k)
    ELSE /\ j <= Len(text)
         /\ AtomMatches(re[i], text[j])
         /\ RegexMatchFrom(re, i + 1, text, j + 1)

(* Regex::is_match of an expression anchored by '^' and '$' *)
RegexIsMatch(re, text) == RegexMatchFrom(re, 2, text, 1)

(* Glob::matches *)
GlobMatches(glob, candidate) == RegexIsMatch(glob, candidate)

-----------------------------------------------------------------------------
(* The glob specification: Glob::new(pattern).matches(candidate).          *)

MaxPattern == 3

USERS_STAR == <<"u", "s", "e", "r", "s", ":", "*">>

STAR_USERS == <<"*", ":", "u", "s", "e", "r", "s">>

USERS == <<"u", "s", "e", "r", "s", ":">>

SWEDEN == <<"s", "w", "e", "d", "e", "n", ":", "u", "s", "e", "r", "s", ":", "4", "2", "9">>

PatternChars == {"a", ":", ".", "*"}

CandidateChars == {"a", "b", ":"}

Patterns ==
    SeqsUpTo(PatternChars, MaxPattern) \cup {USERS_STAR, STAR_USERS}

Candidates ==
    SeqsUpTo(CandidateChars, MaxPattern) \cup {USERS, SWEDEN}

GMatches ==
    \E pattern \in Patterns, candidate \in Candidates :
        /\ last = NoCall
        /\ last' = [op |-> "matches", pattern |-> pattern, candidate |-> candidate,
                    ret |-> GlobMatches(GlobNew(pattern), candidate)]
        /\ UNCHANGED <<domain, log, snapshots, now, codec, clients, lock, recovery>>

GNext == GMatches \/ Return

SpecGlob == ZInit /\ [][GNext]_vars

(* The match the glob language defines: '*' is one or more characters,     *)
(* every other character is itself, the whole candidate is matched.        *)
RECURSIVE LiteralGlob(_, _)
LiteralGlob(pattern, candidate) ==
    IF pattern = <<>> THEN candidate = <<>>
    ELSE IF Head(pattern) = "*"
    THEN \E k \in 1..Len(candidate) :
            LiteralGlob(Tail(pattern), SubSeq(candidate, k + 1, Len(candidate)))
    ELSE /\ candidate # <<>>
         /\ Head(candidate) = Head(pattern)
         /\ LiteralGlob(Tail(pattern), Tail(candidate))

(* C20: glob matching is anchored, '*' stands for one or more characters   *)
(* and every other pattern character matches only itself.                  *)
C20_GlobLiteralMatch ==
    last.op = "matches" => last.ret = LiteralGlob(last.pattern, last.candidate)

-----------------------------------------------------------------------------
(* datatype/keyvalues.rs, generic.rs, ttl.rs: strings, key queries, TTLs.  *)
(* Instants and durations are whole seconds.                               *)

(* The keys of a HashMap in iteration order (an arbitrary, fixed one). *)
RECURSIVE KeysOf(_)
KeysOf(S) ==
    IF S = {} THEN <<>>
    ELSE LET k == CHOOSE x \in S : TRUE IN <<k>> \o KeysOf(S \ {k})

(* xs.join(",") *)
RECURSIVE JoinComma(_)
JoinComma(xs) ==
    IF xs = <<>> THEN <<>>
    ELSE IF Len(xs) = 1 THEN xs[1]
    ELSE xs[1] \o <<",">> \o JoinComma(Tail(xs))

(* keyvalues::string_prefix *)
string_prefix(xs) == JoinComma(SubSeq(xs, 1, Min(5, Len(xs))))

(* KeyValues::get *)
get(d, key) ==
    IF key \in DOMAIN d.strings THEN [ok |-> TRUE, value |-> d.strings[key]]
    ELSE IF key \in DOMAIN d.lists THEN [ok |-> TRUE, value |-> string_prefix(d.lists[key])]
    ELSE [ok |-> FALSE, error |-> "NotFound"]

(* keyvalues::apply, StringsApi::Get: get(key)? wrapped in a bulk string. *)
ApplyGet(d, key) ==
    LET r == get(d, key)
    IN  IF r.ok THEN [ok |-> TRUE, response |-> BulkString(r.value)]
        ELSE [ok |-> FALSE, error |-> r.error]

(* Generic::filter_keys: the keys of strings, then of lists, that match. *)
filter_keys(d, pattern) ==
    LET glob == GlobNew(pattern)
    IN  SelectSeq(KeysOf(DOMAIN d.strings) \o KeysOf(DOMAIN d.lists),
                  LAMBDA s : GlobMatches(glob, s))

(* Generic::get_ttl *)
get_ttl(d, key, t) ==
    LET ttl == ttl_remaining(d, key, t)
    IN  IF ttl.some THEN [kind |-> "ExpiresIn", secs |-> ttl.value]
        ELSE IF filter_keys(d, key) = <<>> THEN [kind |-> "UnknownKey"]
        ELSE [kind |-> "Eternal"]

(* impl From<Ttl> for Message *)
TtlMessage(value) ==
    CASE value.kind = "UnknownKey" -> Integer(0 - 2)
      [] value.kind = "Eternal"    -> Integer(0 - 1)
      [] value.kind = "ExpiresIn"  -> Integer(value.secs)

(* Generic::key_exists *)
key_exists(d, key) == key \in DOMAIN d.strings \/ key \in DOMAIN d.lists

(* Generic::type_of_key *)
type_of_key(d, key) ==
    IF key \in DOMAIN d.strings THEN "string"
    ELSE IF key \in DOMAIN d.lists THEN "list"
    ELSE "none"

-----------------------------------------------------------------------------
(* The keyspace specification: the bodies of the string, list, sorted-set  *)
(* and generic handlers run on one domain while the clock advances.        *)

MaxTime == 2

MaxElements == 2

TKeys == {<<"k">>, <<"j">>}

TValues == {<<"v">>}

TElements == {<<"x">>, <<"y">>}

TtlSeconds == {1}

TRest == <<log, snapshots, codec, clients, lock, recovery>>

(* keyvalues::apply, StringsApi::Set *)
TSet ==
    \E key \in TKeys, value \in TValues :
        /\ last = NoCall
        /\ domain' = set(domain, key, value, now)
        /\ last' = [op |-> "set", key |-> key, before |-> domain, at |-> now,
                    response |-> SimpleString(OK)]
        /\ UNCHANGED now /\ UNCHANGED TRest

(* keyvalues::apply, StringsApi::Get *)
TGet ==
    \E key \in TKeys :
        /\ last = NoCall
        /\ last' = [op |-> "get", key |-> key, at |-> now, result |-> ApplyGet(domain, key)]
        /\ UNCHANGED <<domain, now>> /\ UNCHANGED TRest

(* lists::apply, ListApi::Append with one element *)
TAppend ==
    \E key \in TKeys, element \in TElements, to_existing \in BOOLEAN :
        LET r == append(domain, key, element, to_existing, now) IN
        /\ last = NoCall
        /\ length(domain, key) < MaxElements
        /\ domain' = r.domain
        /\ last' = [op |-> "append", key |-> key, element |-> element,
                    to_existing |-> to_existing, before |-> domain, at |-> now,
                    ret |-> r.ret, response |-> Integer(r.ret)]
        /\ UNCHANGED now /\ UNCHANGED TRest

(* lists::apply, ListApi::Prepend with one element *)
TPrepend ==
    \E key \in TKeys, element \in TElements, to_existing \in BOOLEAN :
        LET r == prepend(domain, key, element, to_existing) IN
        /\ last = NoCall
        /\ length(domain, key) < MaxElements
        /\ domain' = r.domain
        /\ last' = [op |-> "prepend", key |-> key, element |-> element,
                    to_existing |-> to_existing, before |-> domain, at |-> now,
                    ret |-> r.ret, response |-> Integer(r.ret)]
        /\ UNCHANGED now /\ UNCHANGED TRest

(* generic::apply, Generic::Expire *)
TExpire ==
    \E key \in TKeys, ttl \in TtlSeconds :
        /\ last = NoCall
        /\ domain' = register_ttl(domain, key, now, ttl)
        /\ last' = [op |-> "expire", key |-> key, ttl |-> ttl, before |-> domain, at |-> now,
                    response |-> Integer(1)]
        /\ UNCHANGED now /\ UNCHANGED TRest

(* generic::apply, Generic::Ttl *)
TTtl ==
    \E key \in TKeys :
        /\ last = NoCall
        /\ last' = [op |-> "ttl", key |-> key, at |-> now,
                    response |-> TtlMessage(get_ttl(domain, key, now))]
        /\ UNCHANGED <<domain, now>> /\ UNCHANGED TRest

(* The wall clock advances between two calls. *)
TTick ==
    /\ last = NoCall
    /\ now < MaxTime
    /\ now' = now + 1
    /\ UNCHANGED <<domain, last>> /\ UNCHANGED TRest

TReturn ==
    /\ last # NoCall
    /\ last' = NoCall
    /\ UNCHANGED <<domain, now>> /\ UNCHANGED TRest

TNext == TSet \/ TGet \/ TAppend \/ TPrepend \/ TExpire \/ TTtl \/ TTick \/ TReturn

SpecKeyspace == ZInit /\ [][TNext]_vars

-----------------------------------------------------------------------------
(* Claims about the keyspace. *)

(* The TTL instant registered for the key lies before t. *)
Elapsed(d, key, t) == key \in DOMAIN d.ttls /\ d.ttls[key] < t

(* The key's TTL entry still waits in expires: no scan has consumed it. *)
Pending(d, key) ==
    /\ key \in DOMAIN d.ttls
    /\ d.ttls[key] \in DOMAIN d.expires
    /\ d.expires[d.ttls[key]] = key

Bound(d, key) ==
    key \in DOMAIN d.strings \/ key \in DOMAIN d.lists \/ key \in DOMAIN d.sorted_sets

(* C11: once the TTL instant of a key has passed, GET answers Nil and TTL  *)
(* answers -2, also when no write has run since that instant.              *)
C11_ExpiredKeyIsGone ==
    /\ (last.op = "get" /\ Elapsed(domain, last.key, last.at) /\ Pending(domain, last.key)) =>
          last.result = [ok |-> TRUE, response |-> Nil]
    /\ (last.op = "ttl" /\ Elapsed(domain, last.key, last.at) /\ Pending(domain, last.key)) =>
          last.response = Integer(0 - 2)

(* C12: TTL answers -2 exactly when the key is bound in no typed map, -1   *)
(* exactly when it is bound and has no TTL, otherwise the seconds left.    *)
C12_TtlAnswer ==
    last.op = "ttl" =>
        LET answer == last.response.value
            bound  == Bound(domain, last.key)
            timed  == last.key \in DOMAIN domain.ttls
        IN  /\ last.response.type = "Integer"
            /\ (answer = 0 - 2) <=> ~bound
            /\ (answer = 0 - 1) <=> (bound /\ ~timed)
            /\ (bound /\ timed) => answer = domain.ttls[last.key] - last.at

(* C14: a push with only_if_exists on a key without a list creates nothing *)
(* and returns 0; any other push adds one element at the back (front),     *)
(* returns the new length and leaves the lists of the other keys alone.    *)
C14_PushFrame ==
    last.op \in {"append", "prepend"} =>
        LET b   == last.before.lists
            a   == domain.lists
            k   == last.key
            old == IF k \in DOMAIN b THEN b[k] ELSE <<>>
        IN  /\ IF last.to_existing /\ k \notin DOMAIN b
               THEN k \notin DOMAIN a /\ last.ret = 0
               ELSE /\ k \in DOMAIN a
                    /\ a[k] = IF last.op = "append" THEN Append(old, last.element)
                              ELSE <<last.element>> \o old
                    /\ last.ret = Len(a[k])
            /\ \A j \in TKeys \ {k} :
                  ~Elapsed(last.before, j, last.at) =>
                      /\ (j \in DOMAIN a) <=> (j \in DOMAIN b)
                      /\ j \in DOMAIN b => a[j] = b[j]

(* C15: GET of a key that is absent from the dataset answers Nil. *)
C15_GetAbsentIsNil ==
    (last.op = "get" /\ ~Bound(domain, last.key)) =>
        last.result = [ok |-> TRUE, response |-> Nil]

WRONGTYPE == <<"W", "R", "O", "N", "G", "T", "Y", "P", "E">>

(* C17: a list command on a key that binds a string answers an Error with  *)
(* prefix WRONGTYPE and leaves the dataset unchanged.                      *)
C17_ListCommandOnString ==
    (last.op \in {"append", "prepend"} /\ last.key \in DOMAIN last.before.strings) =>
        /\ last.response.type = "Error"
        /\ last.response.prefix = PrefixNamed(WRONGTYPE)
        /\ Data(domain) = Data(last.before)

-----------------------------------------------------------------------------
(* Claims about Lists::set_element. *)

(* C13: set_element returns false and leaves the list unchanged when the   *)
(* key is absent or the index is not below the length; it returns true     *)
(* only when it overwrote the element at the index.                        *)
C13_SetElementInRange ==
    last.op = "set_element" =>
        LET b       == last.before
            inrange == last.key \in DOMAIN b /\ last.index < Len(b[last.key])
        IN  /\ last.ret <=> inrange
            /\ ~inrange => domain.lists = b
            /\ inrange =>
                  domain.lists = [b EXCEPT ![last.key][last.index + 1] = last.element]

-----------------------------------------------------------------------------
(* ZRANK and ZSCORE: datatype/sorted_sets.rs, the module the classifier's *)
(* SortedSetApi belongs to (commands.rs imports crate::datatype).         *)

(* OrderedScores::range_by_score: the enumerated (score, member) pairs of  *)
(* the buckets with start <= score <= stop.                                *)
range_by_score(xs, start, stop) ==
    LET within == {s \in DOMAIN xs.score_to_members : start <= s /\ s <= stop}
    IN Enumerate(Flatten([s \in within |-> xs.score_to_members[s]]))

(* find_map over an iterator: the first item that passes, None when there  *)
(* is none.                                                                *)
FindMember(ps, member) ==
    LET hits == {i \in 1..Len(ps) : ps[i][2][2] = member} IN
    IF hits = {} THEN [some |-> FALSE]
    ELSE LET i == MinOf(hits) IN
         [some |-> TRUE, rank |-> ps[i][1], score |-> ps[i][2][1], member |-> member]

(* OrderedScores::member_stats; f64::MIN lies below every score, here the  *)
(* least of Scores.                                                        *)
member_stats(xs, member) ==
    IF member \in DOMAIN xs.member_to_score
    THEN FindMember(range_by_score(xs, MinOf(Scores), xs.member_to_score[member]), member)
    ELSE [some |-> FALSE]

(* impl SortedSet for core::Domain: member_stats *)
domain_member_stats(d, key, member) ==
    IF key \in DOMAIN d.sorted_sets
    THEN member_stats(d.sorted_sets[key], member)
    ELSE [some |-> FALSE]

(* sorted_sets::apply, SortedSetApi::Rank: map(rank).unwrap_or(0) *)
ApplyRank(d, key, member) ==
    LET stat == domain_member_stats(d, key, member) IN
    Integer(IF stat.some THEN stat.rank ELSE 0)

(* sorted_sets::apply, SortedSetApi::Score: map(score).unwrap_or(0f64).to_string() *)
ApplyScore(d, key, member) ==
    LET stat == domain_member_stats(d, key, member) IN
    BulkString(FormatInt(IF stat.some THEN stat.score ELSE 0))

QRest == <<domain, log, snapshots, now, codec, clients, lock, recovery>>

ZRank ==
    \E key \in ZKeys, member \in Members :
        /\ last = NoCall
        /\ last' = [op |-> "rank", key |-> key, member |-> member,
                    response |-> ApplyRank(domain, key, member)]
        /\ UNCHANGED QRest

ZScore ==
    \E key \in ZKeys, member \in Members :
        /\ last = NoCall
        /\ last' = [op |-> "score", key |-> key, member |-> member,
                    response |-> ApplyScore(domain, key, member)]
        /\ UNCHANGED QRest

QNext == ZAdd \/ ZRank \/ ZScore \/ Return

SpecMemberStats == ZInit /\ [][QNext]_vars

(* The key has no sorted set or the member is not in it. *)
MemberAbsent(d, key, member) ==
    \/ key \notin DOMAIN d.sorted_sets
    \/ member \notin DOMAIN d.sorted_sets[key].member_to_score

(* C16: ZRANK and ZSCORE answer Nil when the key has no sorted set or the  *)
(* member is not in it, never a rank or a score.                           *)
C16_AbsentMemberIsNil ==
    (last.op \in {"rank", "score"} /\ MemberAbsent(domain, last.key, last.member)) =>
        last.response = Nil

(* A present member is answered with its position in score order and its   *)
(* score: the handlers agree with the claim's other half.                   *)
PresentMemberAnswered ==
    (last.op \in {"rank", "score"} /\ ~MemberAbsent(domain, last.key, last.member)) =>
        LET xs == domain.sorted_sets[last.key]
            ps == Flatten(xs.score_to_members)
        IN  IF last.op = "rank"
            THEN /\ last.response.type = "Integer"
                 /\ ps[last.response.value + 1][2] = last.member
            ELSE last.response = BulkString(FormatInt(xs.member_to_score[last.member]))

-----------------------------------------------------------------------------
(* The classifier on requests in several spellings. *)

UpperLetters == Chars("ABCDEFGHIJKLMNOPQRSTUVWXYZ")

LowerLetters == Chars("abcdefghijklmnopqrstuvwxyz")

(* A character in the other case; a character that is no letter as it is. *)
Recase(c, from, to) ==
    IF \E i \in 1..Len(from) : from[i] = c
    THEN to[CHOOSE i \in 1..Len(from) : from[i] = c]
    ELSE c

(* A word in one of the spellings a client may send it in. *)
Spell(word, spelling) ==
    [i \in 1..Len(word) |->
        CASE spelling = "upper" -> Recase(word[i], LowerLetters, UpperLetters)
          [] spelling = "lower" -> Recase(word[i], UpperLetters, LowerLetters)
          [] spelling = "capitalised" ->
                IF i = 1 THEN Recase(word[i], LowerLetters, UpperLetters)
                ELSE Recase(word[i], UpperLetters, LowerLetters)
          [] spelling = "inverted" ->
                IF i = 1 THEN Recase(word[i], UpperLetters, LowerLetters)
                ELSE Recase(word[i], LowerLetters, UpperLetters)]

Spellings == {"upper", "lower", "capitalised", "inverted"}

(* A request form: its words, the positions of the verb and keyword tokens *)
(* and the positions of the numeric arguments.                             *)
Form(words, keywords, numerics) ==
    [words |-> [i \in 1..Len(words) |-> Chars(words[i])],
     keywords |-> keywords, numerics |-> numerics]

WellFormed ==
    {Form(<<"LRANGE", "k", "0", "-1">>, {1}, {3, 4}),
     Form(<<"RPUSH", "k", "x">>, {1}, {}),
     Form(<<"RPUSHX", "k", "x">>, {1}, {}),
     Form(<<"LPUSH", "k", "x", "y">>, {1}, {}),
     Form(<<"LPUSHX", "k", "x">>, {1}, {}),
     Form(<<"LLEN", "k">>, {1}, {}),
     Form(<<"LSET", "k", "0", "x">>, {1}, {3}),
     Form(<<"SET", "k", "v">>, {1}, {}),
     Form(<<"GET", "k">>, {1}, {}),
     Form(<<"MGET", "k", "j">>, {1}, {}),
     Form(<<"CLIENT", "SETNAME", "n">>, {1, 2}, {}),
     Form(<<"PING">>, {1}, {}),
     Form(<<"PING", "hello">>, {1}, {}),
     Form(<<"SELECT", "1">>, {1}, {2}),
     Form(<<"COMMAND", "DOCS">>, {1, 2}, {}),
     Form(<<"COMMAND">>, {1}, {}),
     Form(<<"DBSIZE">>, {1}, {}),
     Form(<<"INFO", "KEYSPACE">>, {1, 2}, {}),
     Form(<<"INFO", "SERVER">>, {1, 2}, {}),
     Form(<<"INFO">>, {1}, {}),
     Form(<<"BGSAVE">>, {1}, {}),
     Form(<<"KEYS", "*">>, {1}, {}),
     Form(<<"SCAN", "0">>, {1}, {2}),
     Form(<<"SCAN", "0", "COUNT", "1">>, {1, 3}, {2, 4}),
     Form(<<"SCAN", "0", "MATCH", "*", "COUNT", "1">>, {1, 3, 5}, {2, 6}),
     Form(<<"TTL", "k">>, {1}, {}),
     Form(<<"EXPIRE", "k", "1">>, {1}, {3}),
     Form(<<"EXISTS", "k">>, {1}, {}),
     Form(<<"TYPE", "k">>, {1}, {})}

Malformed ==
    {Form(<<"LRANGE", "k", "a", "1">>, {1}, {3, 4}),
     Form(<<"LRANGE", "k", "0", "a">>, {1}, {3, 4}),
     Form(<<"LSET", "k", "a", "x">>, {1}, {3}),
     Form(<<"LSET", "k", "-1", "x">>, {1}, {3}),
     Form(<<"SELECT", "a">>, {1}, {2}),
     Form(<<"EXPIRE", "k", "a">>, {1}, {3}),
     Form(<<"EXPIRE", "k", "">>, {1}, {3}),
     Form(<<"SCAN", "a">>, {1}, {2}),
     Form(<<"SCAN", "0", "COUNT", "a">>, {1, 3}, {2, 4})}

Forms == WellFormed \cup Malformed

(* tests::make_command: the request message of a form in a spelling. *)
make_command(form, spelling) ==
    make_bulk_array([i \in 1..Len(form.words) |->
                        IF i \in form.keywords THEN Spell(form.words[i], spelling)
                        ELSE form.words[i]])

(* Command::try_from on one request. *)
YClassify ==
    \E form \in Forms, spelling \in Spellings :
        /\ last = NoCall
        /\ last' = [op |-> "classify", form |-> form, spelling |-> spelling,
                    result |-> CommandTryFrom(make_command(form, spelling))]
        /\ UNCHANGED QRest

(* The well-formed requests of the sorted-set commands. *)
SortedSetForms ==
    {Form(<<"ZADD", "k", "1", "a">>, {1}, {}),
     Form(<<"ZADD", "k", "1", "a", "2", "b">>, {1}, {}),
     Form(<<"ZADD", "k", "NX", "1", "a">>, {1, 3}, {}),
     Form(<<"ZADD", "k", "XX", "GT", "CH", "5", "a">>, {1, 3, 4, 5}, {}),
     Form(<<"ZRANGE", "k", "0", "1">>, {1}, {3, 4}),
     Form(<<"ZRANGE", "k", "1", "2", "BYSCORE">>, {1, 5}, {}),
     Form(<<"ZRANK", "k", "a">>, {1}, {}),
     Form(<<"ZSCORE", "k", "a">>, {1}, {})}

(* Command::try_from on one sorted-set request. *)
YClassifySortedSet ==
    \E form \in SortedSetForms, spelling \in {"upper", "lower"} :
        /\ last = NoCall
        /\ last' = [op |-> "classify_sorted_set", form |-> form, spelling |-> spelling,
                    result |-> CommandTryFrom(make_command(form, spelling))]
        /\ UNCHANGED QRest

YNext == YClassify \/ YClassifySortedSet \/ Return

SpecClassifier == ZInit /\ [][YNext]_vars

(* C18: every spelling of the verb and keyword tokens of a supported       *)
(* command yields the same typed command, and never an Unknown command.    *)
C18_CaseInsensitive ==
    (last.op = "classify" /\ last.form \in WellFormed) =>
        /\ last.result.ok
        /\ last.result.category # "Unknown"
        /\ \A spelling \in Spellings :
              CommandTryFrom(make_command(last.form, spelling)) = last.result

(* Some numeric argument of the form is not an integer. *)
Unparsable(form) ==
    \E i \in form.numerics : ~ParseInt(form.words[i]).ok

(* C19: a request with a recognized verb (in the upper-case spelling) and  *)
(* a numeric argument that does not parse fails with an InvalidInput error *)
(* that carries the parse error; it is not an Unknown command.             *)
C19_BadNumberIsInvalidInput ==
    (last.op = "classify" /\ last.spelling = "upper" /\ Unparsable(last.form)) =>
        /\ ~last.result.ok
        /\ last.result.error.kind = "InvalidInput"
        /\ last.result.error.text \in {"invalid digit found in string",
                                       "cannot parse integer from empty string"}

(* The spellings the source writes out classify as the repository's tests  *)
(* expect: the upper-case verbs, and the lower-case ones except ping and   *)
(* select, never yield an Unknown command.                                 *)
WrittenSpellingsClassify ==
    (/\ last.op = "classify" /\ last.form \in WellFormed
     /\ \/ last.spelling = "upper"
        \/ /\ last.spelling = "lower"
           /\ last.form.words[1] \notin {Chars("PING"), Chars("SELECT"), Chars("COMMAND")}) =>
        last.result.ok /\ last.result.category # "Unknown"

-----------------------------------------------------------------------------
(* The transaction log on its own: LogFile::append and LogFile::replay, as *)
(* tests::discards_stale_prefix drives them.                               *)

MaxLog == 3

MaxRevision == 2

(* mk_string("OK"), mk_string("OK2") *)
LogTexts == {OK, Chars("OK2")}

(* log.append(mk_entry(&rev, mk_string(text))) *)
RLogAppend ==
    \E revision \in 0..MaxRevision, text \in LogTexts :
        /\ last = NoCall
        /\ Len(log) < MaxLog
        /\ log' = LogFileAppend(log, LogEntryNew(now, revision, SimpleString(text)))
        /\ UNCHANGED <<domain, snapshots, now, last, codec, clients, lock, recovery>>

(* log.replay(&since).iter().collect() *)
RReplay ==
    \E since \in 0..succeeding(MaxRevision) :
        /\ last = NoCall
        /\ last' = [op |-> "replay", since |-> since, ret |-> ReplayViewIter(log, since)]
        /\ UNCHANGED QRest

RNext == RLogAppend \/ RReplay \/ Return

SpecReplay == ZInit /\ [][RNext]_vars

(* C21: replay(since) yields the messages of exactly the entries whose     *)
(* revision is not less than since, in log order, wherever the entries of  *)
(* a lesser revision stand in the log.                                     *)
C21_ReplayDropsEveryStaleEntry ==
    last.op = "replay" =>
        LET kept == SelectSeq(log, LAMBDA e : e.revision >= last.since)
        IN  last.ret = [i \in 1..Len(kept) |-> parse_message_phrase(kept[i].content)]

(* The revisions of the log never decrease, as in a log that only          *)
(* record_evidence has written.                                            *)
NonDecreasing(file) ==
    \A i \in 1..Len(file) : \A j \in 1..Len(file) : i < j => file[i].revision <= file[j].revision

(* On a log whose revisions never decrease replay yields exactly the       *)
(* entries of a revision not less than since.                              *)
ReplayOfOrderedLog ==
    (last.op = "replay" /\ NonDecreasing(log)) => C21_ReplayDropsEveryStaleEntry

-----------------------------------------------------------------------------
(* ZADD: the options (datatype/sorted_sets.rs), the classification of the  *)
(* request (commands.rs) and the handler.                                  *)

(* Only::parse *)
OnlyParse(word) ==
    IF Is(word, {"XX", "xx"}) THEN [some |-> TRUE, value |-> "UpdateExisting"]
    ELSE IF Is(word, {"NX", "nx"}) THEN [some |-> TRUE, value |-> "AddNew"]
    ELSE [some |-> FALSE]

(* When::parse *)
WhenParse(word) ==
    IF Is(word, {"GT", "gt"}) THEN [some |-> TRUE, value |-> "GreaterThan"]
    ELSE IF Is(word, {"LT", "lt"}) THEN [some |-> TRUE, value |-> "LessThan"]
    ELSE [some |-> FALSE]

(* Return::parse *)
ReturnParse(word) ==
    IF Is(word, {"CH", "ch"}) THEN [some |-> TRUE, value |-> "Changed"] ELSE [some |-> FALSE]

(* AddOptions::return_default, AddOptions::return_changed *)
return_default(policy) == [merge |-> policy, and_return |-> "Added"]

return_changed(policy) == [merge |-> policy, and_return |-> "Changed"]

(* AddOptions::select_return *)
select_return(p, q, policy) ==
    [merge |-> policy,
     and_return |-> IF p.and_return = "Changed" \/ q.and_return = "Changed"
                    THEN "Changed" ELSE "Added"]

(* AddOptions::is_recognized *)
is_recognized(word) == WhenParse(word).some \/ OnlyParse(word).some \/ ReturnParse(word).some

(* AddOptions::produce_option (AddOptions::parse of a word in core/domain) *)
produce_option(word) ==
    IF WhenParse(word).some
    THEN [some |-> TRUE, value |-> return_default(<<"AddOrUpdate", WhenParse(word).value>>)]
    ELSE IF OnlyParse(word).some
    THEN [some |-> TRUE, value |-> return_default(<<"Require", OnlyParse(word).value>>)]
    ELSE IF ReturnParse(word).some
    THEN [some |-> TRUE, value |-> return_changed(<<"Default">>)]
    ELSE [some |-> FALSE]

(* AddOptions::combine_options (AddOptions::combine in core/domain) *)
combine_options(lhs, rhs) ==
    IF lhs.merge[1] = "AddOrUpdate" /\ rhs.merge = <<"Require", "UpdateExisting">>
    THEN select_return(lhs, rhs, <<"UpdateExisting", lhs.merge[2]>>)
    ELSE IF lhs.merge = <<"Require", "UpdateExisting">> /\ rhs.merge[1] = "AddOrUpdate"
    THEN select_return(lhs, rhs, <<"UpdateExisting", rhs.merge[2]>>)
    ELSE return_default(<<"Diverged">>)

(* The length of the longest prefix of recognized words. *)
RECURSIVE Recognized(_)
Recognized(phrase) ==
    IF phrase # <<>> /\ is_recognized(Head(phrase)) THEN 1 + Recognized(Tail(phrase)) ELSE 0

(* Iterator::fold(first, combine) over the options of the words. *)
RECURSIVE FoldOptions(_, _)
FoldOptions(acc, words) ==
    IF words = <<>> THEN acc
    ELSE FoldOptions(combine_options(acc, produce_option(Head(words)).value), Tail(words))

(* AddOptions::parse of datatype/sorted_sets.rs. take_while on the shared  *)
(* iterator also takes the first word it rejects; reduce starts from the   *)
(* first option.                                                           *)
AddOptionsParse(phrase) ==
    LET n == Recognized(phrase) IN
    [options |-> IF n = 0 THEN return_default(<<"Default">>)
                 ELSE FoldOptions(produce_option(phrase[1]).value, SubSeq(phrase, 2, n)),
     entries |-> SubSeq(phrase, n + 2, Len(phrase))]

(* AddArgsParser::parse_into of core/domain/sorted_sets.rs: the fold       *)
(* starts from AddOptions::default().                                      *)
parse_into(phrase) ==
    LET n == Recognized(phrase) IN
    [options |-> FoldOptions(return_default(<<"Default">>), SubSeq(phrase, 1, n)),
     entries |-> SubSeq(phrase, n + 1, Len(phrase))]

(* Command::decode::<f64>: the images of the model are integer literals    *)
(* and words of letters; the former parse, the latter do not.              *)
decode_f64(image) ==
    LET parsed == ParseInt(image) IN
    IF parsed.ok THEN [ok |-> TRUE, value |-> parsed.value]
    ELSE [ok |-> FALSE, error |-> [kind |-> "InvalidInput", text |-> "invalid float literal"]]

(* slice::windows(2) *)
Windows2(xs) == [i \in 1..(IF Len(xs) < 2 THEN 0 ELSE Len(xs) - 1) |-> <<xs[i], xs[i + 1]>>]

(* impl TryFrom<Message> for sorted_sets::SortedSetApi *)
SortedSetApiTryFrom(message) ==
    LET a == try_as_bulk_array(message)
        words == a.value
        n == Len(words)
    IN  IF ~a.some THEN wrong_category
        ELSE IF n >= 2 /\ Is(words[1], {"ZADD", "zadd"})
        THEN LET parsed  == AddOptionsParse(SubSeq(words, 3, n))
                 pairs   == Windows2(parsed.entries)
                 scores  == [i \in 1..Len(pairs) |-> decode_f64(pairs[i][1])]
                 failing == {i \in 1..Len(pairs) : ~scores[i].ok}
             IN  IF failing # {} THEN scores[MinOf(failing)]
                 ELSE [ok |-> TRUE,
                       api |-> [variant |-> "Add", key |-> words[2],
                                entries |-> [i \in 1..Len(pairs) |->
                                                <<scores[i].value, pairs[i][2]>>],
                                options |-> parsed.options]]
        ELSE IF n = 5 /\ Is(words[1], {"ZRANGE", "zrange"}) /\ Is(words[5], {"BYSCORE", "byscore"})
        THEN LET start == decode_f64(words[3])
                 stop  == decode_f64(words[4])
             IN  IF ~start.ok THEN start
                 ELSE IF ~stop.ok THEN stop
                 ELSE [ok |-> TRUE, api |-> [variant |-> "RangeByScore", key |-> words[2],
                                             start |-> start.value, stop |-> stop.value]]
        ELSE IF n = 4 /\ Is(words[1], {"ZRANGE", "zrange"})
        THEN LET start == decode(words[3], FALSE)
                 stop  == decode(words[4], FALSE)
             IN  IF ~start.ok THEN start
                 ELSE IF ~stop.ok THEN stop
                 ELSE [ok |-> TRUE, api |-> [variant |-> "RangeByRank", key |-> words[2],
                                             start |-> start.value, stop |-> stop.value]]
        ELSE IF n = 3 /\ Is(words[1], {"ZRANK", "zrank"})
        THEN [ok |-> TRUE, api |-> [variant |-> "Rank", key |-> words[2], member |-> words[3]]]
        ELSE IF n = 3 /\ Is(words[1], {"ZSCORE", "zscore"})
        THEN [ok |-> TRUE, api |-> [variant |-> "Score", key |-> words[2], member |-> words[3]]]
        ELSE wrong_category

MaxOptions == 3

MaxAdds == 1

OptionWords == {Chars("XX"), Chars("NX"), Chars("GT"), Chars("LT"), Chars("CH")}

ScoreImages == {Chars("1"), Chars("2")}

MemberWords == {Chars("a"), Chars("b")}

(* The words of the entries s1 m1 ... sn mn. *)
RECURSIVE EntryWords(_)
EntryWords(entries) ==
    IF entries = <<>> THEN <<>>
    ELSE <<Head(entries)[1], Head(entries)[2]>> \o EntryWords(Tail(entries))

(* The server after startup: the replay is over. *)
AInit ==
    /\ domain = finalize_replay(InitDomain)
    /\ log = << >>
    /\ snapshots = EmptyMap
    /\ now = 0
    /\ last = NoCall
    /\ codec = IdleCodec
    /\ clients = EmptyMap
    /\ lock = NoLock
    /\ recovery = IdleRecovery

(* sorted_sets::apply on the command of one ZADD request, when the request *)
(* classifies as a sorted-set command.                                     *)
AZAdd ==
    \E options \in SeqsUpTo(OptionWords, MaxOptions),
       entries \in SeqsUpTo(ScoreImages \X MemberWords, MaxEntries) :
        LET message == make_bulk_array(<<Chars("ZADD"), Chars("k")>> \o options
                                        \o EntryWords(entries))
            command == SortedSetApiTryFrom(message)
            r == apply_transaction(domain, log, now, message,
                                   [category |-> "SortedSets", api |-> command.api])
        IN  /\ last = NoCall
            /\ domain.revision < MaxAdds
            /\ IF command.ok
               THEN /\ domain' = r.domain
                    /\ log' = r.log
                    /\ last' = [op |-> "zadd", options |-> options, entries |-> entries,
                                parsed |-> AddOptionsParse(options \o EntryWords(entries)),
                                command |-> command, response |-> r.response]
               ELSE /\ UNCHANGED <<domain, log>>
                    /\ last' = [op |-> "zadd", options |-> options, entries |-> entries,
                                parsed |-> AddOptionsParse(options \o EntryWords(entries)),
                                command |-> command]
            /\ UNCHANGED <<snapshots, now, codec, clients, lock, recovery>>

ANext == AZAdd \/ Return

SpecZAdd == AInit /\ [][ANext]_vars

(* C22: a ZADD whose options parse to the Diverged sentinel is answered    *)
(* with an Error message, not with a count.                                *)
C22_DivergedIsError ==
    (last.op = "zadd" /\ last.command.ok
        /\ last.command.api.options.merge = <<"Diverged">>) =>
        last.response.type = "Error"

(* C28: for ZADD key [options] s1 m1 ... sn mn the classifier takes only   *)
(* the leading option words as options and yields exactly the entries      *)
(* (s1, m1) ... (sn, mn), in order.                                        *)
C28_EntriesPaired ==
    last.op = "zadd" =>
        /\ last.command.ok
        /\ last.command.api.entries =
              [i \in 1..Len(last.entries) |->
                  <<ParseInt(last.entries[i][1]).value, last.entries[i][2]>>]

(* The merge policy a set of distinct option words stands for; Diverged    *)
(* for a combination that is not permitted.                                *)
PolicyOf(words) ==
    LET merging == words \ {Chars("CH")} IN
    CASE merging = {} -> <<"Default">>
      [] merging = {Chars("NX")} -> <<"Require", "AddNew">>
      [] merging = {Chars("XX")} -> <<"Require", "UpdateExisting">>
      [] merging = {Chars("GT")} -> <<"AddOrUpdate", "GreaterThan">>
      [] merging = {Chars("LT")} -> <<"AddOrUpdate", "LessThan">>
      [] merging = {Chars("XX"), Chars("GT")} -> <<"UpdateExisting", "GreaterThan">>
      [] merging = {Chars("XX"), Chars("LT")} -> <<"UpdateExisting", "LessThan">>
      [] OTHER -> <<"Diverged">>

(* The words of the option prefix are distinct. *)
Distinct(words) == \A i \in 1..Len(words) : \A j \in 1..Len(words) : i # j => words[i] # words[j]

Range(f) == {f[i] : i \in DOMAIN f}

(* C29: an option prefix of one permitted merge combination, with or       *)
(* without CH, parses in every order of its words to the policy of the     *)
(* combination, CH recorded as return-changed, and never to Diverged.      *)
C29_PermittedOptionsParse ==
    (/\ last.op = "zadd"
     /\ Distinct(last.options)
     /\ PolicyOf(Range(last.options)) # <<"Diverged">>) =>
        last.parsed.options =
            [merge |-> PolicyOf(Range(last.options)),
             and_return |-> IF Chars("CH") \in Range(last.options) THEN "Changed" ELSE "Added"]

(* What the parsers do get right: a prefix of no option, of one option, or *)
(* of XX with GT or LT in either order parses as C29 says, and the entry   *)
(* words parse_into leaves are all the words after the options.            *)
PlainOptionsParse ==
    (/\ last.op = "zadd"
     /\ Distinct(last.options)
     /\ PolicyOf(Range(last.options)) # <<"Diverged">>
     /\ (Len(last.options) <= 1 \/ Chars("CH") \notin Range(last.options))) =>
        /\ last.parsed.options.merge = PolicyOf(Range(last.options))
        /\ parse_into(last.options \o EntryWords(last.entries)).entries = EntryWords(last.entries)

-----------------------------------------------------------------------------
(* The reader: parser::read_message takes one line of the stream at a time *)
(* and answers as soon as the tokens held parse as a message.              *)

(* BufRead::lines: the stream is cut at every line feed, a carriage return *)
(* that ends a line is dropped with it, and what follows the last line     *)
(* feed is a line when it is not empty.                                    *)
RECURSIVE Lines(_)
Lines(image) ==
    LET feeds == {i \in 1..Len(image) : image[i] = "\n"}
    IN  IF feeds = {} THEN (IF image = <<>> THEN <<>> ELSE <<image>>)
        ELSE LET i == MinOf(feeds)
                 line == SubSeq(image, 1, i - 1)
                 bare == IF line # <<>> /\ line[Len(line)] = "\r"
                         THEN SubSeq(line, 1, Len(line) - 1) ELSE line
             IN  <<bare>> \o Lines(SubSeq(image, i + 1, Len(image)))

(* parser::try_commit_prefix *)
try_commit_prefix(buffer) ==
    LET r == parse_prefix(buffer)
    IN  IF r.ok THEN [some |-> TRUE, message |-> r.message, buffer |-> r.rest]
        ELSE [some |-> FALSE, buffer |-> buffer]

MRest == <<domain, log, snapshots, now, last, clients, lock, recovery>>

(* A stream is opened on the first lines of an encoded message: all of     *)
(* them, or fewer when the peer stopped sending.                           *)
MOpen ==
    \E m \in Messages :
        \E supplied \in 0..Len(Lines(encode(m))) :
            /\ codec = IdleCodec
            /\ codec' = [phase |-> "reading", msg |-> m, wire |-> encode(m),
                         whole |-> Len(Lines(encode(m))),
                         pending |-> SubSeq(Lines(encode(m)), 1, supplied),
                         supplied |-> supplied, consumed |-> 0, buffer |-> <<>>]
            /\ UNCHANGED MRest

(* read_message, Some(Ok(token_image)): one turn of the loop. *)
MReadLine ==
    /\ codec.phase = "reading"
    /\ codec.pending # <<>>
    /\ LET token == TokenParse(Head(codec.pending))
           commit == try_commit_prefix(Append(codec.buffer, token))
       IN  codec' = IF commit.some
                    THEN [codec EXCEPT !.phase = "returned",
                                       !.pending = Tail(codec.pending),
                                       !.consumed = codec.consumed + 1,
                                       !.buffer = commit.buffer]
                         @@ [result |-> commit.message]
                    ELSE [codec EXCEPT !.pending = Tail(codec.pending),
                                       !.consumed = codec.consumed + 1,
                                       !.buffer = commit.buffer]
    /\ UNCHANGED MRest

(* read_message, None: end_of_file. *)
MEndOfFile ==
    /\ codec.phase = "reading"
    /\ codec.pending = <<>>
    /\ codec' = [codec EXCEPT !.phase = "failed"] @@ [error |-> "UnexpectedEof"]
    /\ UNCHANGED MRest

MClose ==
    /\ codec.phase \in {"returned", "failed"}
    /\ codec' = IdleCodec
    /\ UNCHANGED MRest

MNext == MOpen \/ MReadLine \/ MEndOfFile \/ MClose

SpecReader == ZInit /\ [][MNext]_vars

(* C23: read_message answers exactly when the lines taken so far are one   *)
(* whole message: it is still reading after every proper prefix, it does   *)
(* not fail when every line was supplied, and what it answers on the last  *)
(* line is what decoding the whole image at once gives.                    *)
C23_ReaderAnswersOnLastLine ==
    /\ codec.phase = "returned" =>
          /\ codec.consumed = codec.whole
          /\ parse_message_phrase(codec.wire) = [ok |-> TRUE, message |-> codec.result]
    /\ codec.phase = "reading" => codec.consumed < codec.whole
    /\ codec.phase = "failed" => codec.supplied < codec.whole

RECURSIVE BreaksLine(_)
BreaksLine(m) ==
    CASE m.type = "BulkString" -> \E i \in 1..Len(m.text) : m.text[i] \in {"\r", "\n"}
      [] m.type = "Array" -> \E i \in 1..Len(m.elements) : BreaksLine(m.elements[i])
      [] OTHER -> FALSE

(* The same statement for the messages whose bulk strings hold no line     *)
(* break: the arrays, nested or not, are read as C23 says.                 *)
ReaderOfUnbrokenLines ==
    (codec.phase \in {"reading", "returned", "failed"} /\ ~BreaksLine(codec.msg)) =>
        C23_ReaderAnswersOnLastLine

-----------------------------------------------------------------------------
(* The command handlers: keyvalues::apply, lists::apply, generic::apply    *)
(* and sorted_sets::apply, each on a typed command and the request it was  *)
(* classified from.  A write handler runs its body in apply_transaction, a *)
(* read handler computes its answer on the guard of for_reading.           *)

DEFAULT_CHUNK_SIZE == 10

(* Generic::scan_keys *)
scan_keys(d, cursor, pattern, count) ==
    LET combined_size == Cardinality(DOMAIN d.strings) + Cardinality(DOMAIN d.lists)
        size    == IF count.some THEN count.value ELSE DEFAULT_CHUNK_SIZE
        chunk   == SkipTake(KeysOf(DOMAIN d.strings) \o KeysOf(DOMAIN d.lists), cursor, size)
        content == IF pattern.some
                   THEN SelectSeq(chunk, LAMBDA s : GlobMatches(GlobNew(pattern.value), s))
                   ELSE chunk
    IN  IF cursor + size > combined_size
        THEN [kind |-> "Complete", content |-> content]
        ELSE [kind |-> "Chunk", cursor |-> cursor + size + 1, content |-> content]

(* impl From<ScanResult> for Message *)
ScanMessage(scan) ==
    Array(<<Integer(IF scan.kind = "Complete" THEN 0 ELSE scan.cursor),
            make_bulk_array(scan.content)>>)

(* KeyValues::mget and the answer of StringsApi::Mget *)
ApplyMget(d, keys) ==
    Array([i \in 1..Len(keys) |->
              IF get(d, keys[i]).ok THEN BulkString(get(d, keys[i]).value) ELSE Nil])

(* impl SortedSet for core::Domain: range_by_score; the members of the result. *)
domain_range_by_score(d, key, start, stop) ==
    IF key \in DOMAIN d.sorted_sets
    THEN LET r == range_by_score(d.sorted_sets[key], start, stop)
         IN [i \in 1..Len(r) |-> r[i][2][2]]
    ELSE << >>

(* The read arms of the four handlers: the answer computed on the domain   *)
(* behind the read guard.                                                  *)
ReadBody(d, command, t) ==
    LET api == command.api IN
    CASE command.category = "Strings" /\ api.variant = "Get" -> ApplyGet(d, api.key)
      [] command.category = "Strings" /\ api.variant = "Mget" ->
            [ok |-> TRUE, response |-> ApplyMget(d, api.keys)]
      [] command.category = "Lists" /\ api.variant = "Length" ->
            [ok |-> TRUE, response |-> Integer(length(d, api.key))]
      [] command.category = "Lists" /\ api.variant = "Range" ->
            [ok |-> TRUE,
             response |-> make_bulk_array(range(d, api.key, api.start, api.stop).ret)]
      [] command.category = "Generic" /\ api.variant = "Keys" ->
            [ok |-> TRUE, response |-> make_bulk_array(filter_keys(d, api.pattern))]
      [] command.category = "Generic" /\ api.variant = "Scan" ->
            [ok |-> TRUE,
             response |-> ScanMessage(scan_keys(d, api.cursor, api.pattern, api.count))]
      [] command.category = "Generic" /\ api.variant = "Ttl" ->
            [ok |-> TRUE, response |-> TtlMessage(get_ttl(d, api.key, t))]
      [] command.category = "Generic" /\ api.variant = "Exists" ->
            [ok |-> TRUE, response |-> Integer(IF key_exists(d, api.key) THEN 1 ELSE 0)]
      [] command.category = "Generic" /\ api.variant = "Type" ->
            [ok |-> TRUE, response |-> SimpleString(Chars(type_of_key(d, api.key)))]
      [] command.category = "SortedSets" /\ api.variant = "RangeByRank" ->
            [ok |-> TRUE,
             response |-> make_bulk_array(domain_range_by_rank(d, api.key, api.start, api.stop))]
      [] command.category = "SortedSets" /\ api.variant = "RangeByScore" ->
            [ok |-> TRUE,
             response |-> make_bulk_array(domain_range_by_score(d, api.key, api.start, api.stop))]
      [] command.category = "SortedSets" /\ api.variant = "Rank" ->
            [ok |-> TRUE, response |-> ApplyRank(d, api.key, api.member)]
      [] command.category = "SortedSets" /\ api.variant = "Score" ->
            [ok |-> TRUE, response |-> ApplyScore(d, api.key, api.member)]

MaxHandled == 2

HKey == Chars("k")

(* A request and the typed command its handler is given. *)
Classified(words) ==
    LET message == make_bulk_array(words)
        command == CommandTryFrom(message)
    IN  [message |-> message, command |-> [category |-> command.category, api |-> command.api]]

(* The sorted-set commands, typed as SortedSetApi; the members are those   *)
(* of Members.                                                             *)
SortedSetCall(words, api) ==
    [message |-> make_bulk_array(words), command |-> [category |-> "SortedSets", api |-> api]]

WriteCalls ==
    {Classified(<<Chars("SET"), HKey, Chars("v")>>),
     Classified(<<Chars("RPUSH"), HKey, Chars("x")>>),
     Classified(<<Chars("RPUSH"), HKey, Chars("x"), Chars("y")>>),
     Classified(<<Chars("RPUSHX"), HKey, Chars("x")>>),
     Classified(<<Chars("LPUSH"), HKey, Chars("y")>>),
     Classified(<<Chars("LPUSHX"), HKey, Chars("y")>>),
     Classified(<<Chars("LSET"), HKey, Chars("0"), Chars("y")>>),
     Classified(<<Chars("LSET"), HKey, Chars("5"), Chars("y")>>),
     Classified(<<Chars("EXPIRE"), HKey, Chars("1")>>)}
    \cup {SortedSetCall(<<Chars("ZADD"), HKey, FormatInt(score), Chars(member)>>,
                        [variant |-> "Add", key |-> HKey, entries |-> <<<<score, member>>>>,
                         options |-> AddOptionsParse(<<>>).options])
             : score \in Scores, member \in Members}

ReadCalls ==
    {Classified(<<Chars("GET"), HKey>>),
     Classified(<<Chars("GET"), Chars("j")>>),
     Classified(<<Chars("MGET"), HKey, Chars("j")>>),
     Classified(<<Chars("LLEN"), HKey>>),
     Classified(<<Chars("LRANGE"), HKey, Chars("0"), Chars("1")>>),
     Classified(<<Chars("KEYS"), Chars("*")>>),
     Classified(<<Chars("SCAN"), Chars("0")>>),
     Classified(<<Chars("TTL"), HKey>>),
     Classified(<<Chars("EXISTS"), HKey>>),
     Classified(<<Chars("TYPE"), HKey>>),
     SortedSetCall(<<Chars("ZRANGE"), HKey, Chars("0"), Chars("1")>>,
                   [variant |-> "RangeByRank", key |-> HKey, start |-> 0, stop |-> 1]),
     SortedSetCall(<<Chars("ZRANGE"), HKey, Chars("1"), Chars("2"), Chars("BYSCORE")>>,
                   [variant |-> "RangeByScore", key |-> HKey, start |-> 1, stop |-> 2]),
     SortedSetCall(<<Chars("ZRANK"), HKey, Chars("a")>>,
                   [variant |-> "Rank", key |-> HKey, member |-> "a"]),
     SortedSetCall(<<Chars("ZSCORE"), HKey, Chars("a")>>,
                   [variant |-> "Score", key |-> HKey, member |-> "a"])}

HRest == <<snapshots, now, codec, clients, lock, recovery>>

(* The apply_transaction arms of the handlers. *)
HWrite ==
    \E call \in WriteCalls :
        LET r == apply_transaction(domain, log, now, call.message, call.command) IN
        /\ last = NoCall
        /\ domain.revision < MaxHandled
        /\ domain' = r.domain
        /\ log' = r.log
        /\ last' = [op |-> "write", command |-> call.command, before |-> domain,
                    log_before |-> log, response |-> r.response]
        /\ UNCHANGED HRest

(* The for_reading arms of the handlers: the guard gives no way to change  *)
(* the domain, and the log is not touched.                                 *)
HRead ==
    \E call \in ReadCalls :
        /\ last = NoCall
        /\ last' = [op |-> "read", command |-> call.command, before |-> domain,
                    log_before |-> log, result |-> ReadBody(domain, call.command, now)]
        /\ UNCHANGED <<domain, log>>
        /\ UNCHANGED HRest

HNext == HWrite \/ HRead \/ Return

SpecHandlers == AInit /\ [][HNext]_vars

(* C24: outside replay a write command appends exactly one entry to the    *)
(* log and raises the revision by exactly one, whatever its answer; a read *)
(* command leaves the dataset, the TTL index, the revision and the log as  *)
(* they were.                                                              *)
C24_WritesLogOnceReadsLeaveState ==
    /\ last.op = "write" =>
          /\ IsWrite(last.command)
          /\ Len(log) = Len(last.log_before) + 1
          /\ SubSeq(log, 1, Len(last.log_before)) = last.log_before
          /\ domain.revision = last.before.revision + 1
    /\ last.op = "read" =>
          /\ ~IsWrite(last.command)
          /\ Persistent(domain) = Persistent(last.before)
          /\ log = last.log_before

(* An LSET beyond the end of the list answered an error and was logged     *)
(* after another write, and a sorted set is there to be read.              *)
WriteAnsweredErrorLogged ==
    /\ last.op = "write"
    /\ last.command.api.variant = "Set"
    /\ last.command.category = "Lists"
    /\ last.response.type = "Error"
    /\ Len(log) = 2
    /\ DOMAIN domain.sorted_sets # {}

-----------------------------------------------------------------------------
(* The lifetimes specification: register_ttl, expunge_expired and the      *)
(* mutating operations of the data traits are called on one domain while   *)
(* the clock advances.                                                     *)

EKeys == {Chars("k"), Chars("j")}

ListKey2 == Chars("j")

SetKey == Chars("k")

EDurations == {0, 1}

ERest == <<log, snapshots, codec, clients, lock, recovery>>

(* Lifetimes::register_ttl(key, now, ttl) *)
ERegister ==
    \E key \in EKeys, ttl \in EDurations :
        /\ last = NoCall
        /\ domain' = register_ttl(domain, key, now, ttl)
        /\ last' = [op |-> "register_ttl", key |-> key, before |-> domain, at |-> now]
        /\ UNCHANGED now /\ UNCHANGED ERest

(* Lifetimes::expunge_expired(now) *)
EExpunge ==
    /\ last = NoCall
    /\ domain' = expunge_expired(domain, now)
    /\ last' = [op |-> "expunge_expired", before |-> domain, at |-> now]
    /\ UNCHANGED now /\ UNCHANGED ERest

(* KeyValues::set *)
ESet ==
    \E key \in EKeys :
        /\ last = NoCall
        /\ domain' = set(domain, key, Chars("v"), now)
        /\ last' = [op |-> "set", key |-> key, before |-> domain, at |-> now,
                    alone |-> [domain EXCEPT !.strings = Put(domain.strings, key, Chars("v"))]]
        /\ UNCHANGED now /\ UNCHANGED ERest

(* Lists::append *)
EAppend ==
    /\ last = NoCall
    /\ length(domain, ListKey2) < 1
    /\ domain' = append(domain, ListKey2, Chars("x"), FALSE, now).domain
    /\ last' = [op |-> "append", key |-> ListKey2, before |-> domain, at |-> now,
                alone |-> [domain EXCEPT !.lists = Put(domain.lists, ListKey2, <<Chars("x")>>)]]
    /\ UNCHANGED now /\ UNCHANGED ERest

(* Lists::prepend *)
EPrepend ==
    /\ last = NoCall
    /\ length(domain, ListKey2) < 1
    /\ domain' = prepend(domain, ListKey2, Chars("x"), FALSE).domain
    /\ last' = [op |-> "prepend", key |-> ListKey2, before |-> domain, at |-> now,
                alone |-> [domain EXCEPT !.lists = Put(domain.lists, ListKey2, <<Chars("x")>>)]]
    /\ UNCHANGED now /\ UNCHANGED ERest

(* Lists::set_element *)
ESetElement ==
    \E element \in {Chars("x"), Chars("y")} :
        /\ last = NoCall
        /\ domain' = set_element(domain, ListKey2, 0, element).domain
        /\ last' = [op |-> "set_element", key |-> ListKey2, before |-> domain, at |-> now,
                    alone |-> IF length(domain, ListKey2) > 0
                              THEN [domain EXCEPT !.lists = Put(domain.lists, ListKey2,
                                                                <<element>>)]
                              ELSE domain]
        /\ UNCHANGED now /\ UNCHANGED ERest

(* SortedSet::add *)
EAdd ==
    /\ last = NoCall
    /\ domain' = add(domain, SetKey, <<<<1, "a">>>>, AddOptionsParse(<<>>).options).domain
    /\ last' = [op |-> "add", key |-> SetKey, before |-> domain, at |-> now,
                alone |-> [domain EXCEPT !.sorted_sets =
                              Put(domain.sorted_sets, SetKey,
                                  merge(OrderedScoresNew, 1, "a").xs)]]
    /\ UNCHANGED now /\ UNCHANGED ERest

ENext ==
    \/ ERegister \/ EExpunge \/ ESet \/ EAppend \/ EPrepend \/ ESetElement \/ EAdd
    \/ TTick \/ Return

SpecLifetimes == ZInit /\ [][ENext]_vars

(* The key is held by one of the typed maps. *)
Held(d, key) ==
    key \in DOMAIN d.strings \/ key \in DOMAIN d.lists \/ key \in DOMAIN d.sorted_sets

(* C25: after any calls of register_ttl and expunge_expired the index      *)
(* expires is the inverse of ttls: every key of ttls stands in expires at  *)
(* its instant, and expires holds nothing else.                            *)
C25_ExpiresInverseOfTtls ==
    /\ \A key \in DOMAIN domain.ttls :
          /\ domain.ttls[key] \in DOMAIN domain.expires
          /\ domain.expires[domain.ttls[key]] = key
    /\ \A at \in DOMAIN domain.expires :
          /\ domain.expires[at] \in DOMAIN domain.ttls
          /\ domain.ttls[domain.expires[at]] = at

(* C26: when expunge_expired(now) has returned, no key whose instant is at *)
(* or before now is left in a typed map.                                   *)
C26_NoDueKeyLeft ==
    last.op = "expunge_expired" =>
        \A key \in DOMAIN domain.ttls :
            domain.ttls[key] <= last.at => ~Held(domain, key)

(* The same for the keys whose instant lies strictly before now: it fails *)
(* as well, when the entry of the key was overwritten in expires or the    *)
(* scan stopped at a head moved later.                                     *)
NoElapsedKeyLeft ==
    last.op = "expunge_expired" =>
        \A key \in DOMAIN domain.ttls :
            domain.ttls[key] < last.at => ~Held(domain, key)

(* C27: every mutating operation of the data traits has run                *)
(* expunge_expired when it returns: the domain is what expunge_expired     *)
(* leaves of the change of the operation alone.                            *)
C27_MutatorsExpunge ==
    last.op \in {"set", "append", "prepend", "set_element", "add"} =>
        domain = expunge_expired(last.alone, last.at)

(* The operations that do call it. *)
SetAndAppendExpunge ==
    last.op \in {"set", "append"} => domain = expunge_expired(last.alone, last.at)

-----------------------------------------------------------------------------
(* C30: every well-formed ZADD, ZRANGE (by rank or BYSCORE), ZRANK and     *)
(* ZSCORE request is classified by Command::try_from as a sorted-set       *)
(* command, never as an Unknown command.                                   *)
C30_SortedSetRequestsClassified ==
    last.op = "classify_sorted_set" =>
        /\ last.result.ok
        /\ last.result.category = "SortedSets"

(* The classifier of SortedSetApi, which Command::try_from does not call,  *)
(* takes each of the ZRANGE, ZRANK and ZSCORE requests.                    *)
SortedSetApiTakesQueries ==
    (last.op = "classify_sorted_set" /\ last.form.words[1] # Chars("ZADD")) =>
        LET typed == SortedSetApiTryFrom(make_command(last.form, last.spelling))
        IN  /\ typed.ok
            /\ typed.api.variant \in {"RangeByRank", "RangeByScore", "Rank", "Score"}

-----------------------------------------------------------------------------
(* datatype/sorted_sets.rs: the OrderedScores the handlers of the datatype *)
(* module work on.  Its merge differs from the one of core/domain in the   *)
(* arm of a member that is new to the set.                                 *)

(* OrderedScores::merge of datatype/sorted_sets.rs; panic is TRUE when the *)
(* call reaches one of the two invariant-violation panics.  In the Vacant  *)
(* arm the member has its score before the bucket is looked up.            *)
datatype_merge(xs, new_score, member) ==
    IF member \in DOMAIN xs.member_to_score
    THEN LET score == xs.member_to_score[member] IN
         IF score \in DOMAIN xs.score_to_members
         THEN LET members == xs.score_to_members[score]
                  removed == member \in members
                  rest    == members \ {member}
                  s2m1    == IF removed /\ rest = {}
                             THEN Del(xs.score_to_members, score)
                             ELSE Put(xs.score_to_members, score, rest)
              IN [xs |-> [member_to_score  |-> Put(xs.member_to_score, member, new_score),
                          score_to_members |-> BucketInsert(s2m1, new_score, member)],
                  panic |-> FALSE]
         ELSE [xs |-> xs, panic |-> TRUE]
    ELSE IF new_score \in DOMAIN xs.score_to_members
         THEN [xs |-> [xs EXCEPT !.member_to_score = Put(xs.member_to_score, member, new_score)],
               panic |-> TRUE]
         ELSE [xs |-> [member_to_score  |-> Put(xs.member_to_score, member, new_score),
                       score_to_members |-> Put(xs.score_to_members, new_score, {member})],
               panic |-> FALSE]

NoSet == OrderedScoresNew

SetOf(d, key) == IF key \in DOMAIN d.sorted_sets THEN d.sorted_sets[key] ELSE NoSet

(* One merge on the sorted set of a key, as SortedSet::add runs it for     *)
(* each entry.  A panic ends the thread: nothing is called after it.       *)
OMerge ==
    \E key \in ZKeys, score \in Scores, member \in Members :
        LET r == datatype_merge(SetOf(domain, key), score, member) IN
        /\ last = NoCall
        /\ domain' = [domain EXCEPT !.sorted_sets = Put(domain.sorted_sets, key, r.xs)]
        /\ last' = [op |-> "merge", key |-> key, score |-> score, member |-> member,
                    before |-> SetOf(domain, key), panic |-> r.panic]
        /\ UNCHANGED <<log, snapshots, now, codec, clients, lock, recovery>>

OReturn ==
    /\ last # NoCall
    /\ ~last.panic
    /\ last' = NoCall
    /\ UNCHANGED <<domain, log, snapshots, now, codec, clients, lock, recovery>>

ONext == OMerge \/ OReturn

SpecMerge == ZInit /\ [][ONext]_vars

(* C31: from an empty sorted set no sequence of merges reaches an          *)
(* invariant-violation panic, and a member new to the set merged under a   *)
(* score that has a bucket is added to that bucket.                        *)
C31_MergeNeverPanics ==
    last.op = "merge" =>
        /\ ~last.panic
        /\ (/\ last.member \notin DOMAIN last.before.member_to_score
            /\ last.score \in DOMAIN last.before.score_to_members) =>
              domain.sorted_sets[last.key].score_to_members[last.score]
                 = last.before.score_to_members[last.score] \cup {last.member}

(* The merges of a member the set already has, and of a new member under   *)
(* a score without a bucket, do not panic.                                 *)
MergeOfKnownOrFreshScore ==
    (/\ last.op = "merge"
     /\ \/ last.member \in DOMAIN last.before.member_to_score
        \/ last.score \notin DOMAIN last.before.score_to_members) => ~last.panic

-----------------------------------------------------------------------------
(* C32: the log entry that apply_transaction appends for a write carries   *)
(* the revision the command advanced into: the revision the dataset has    *)
(* once the write is committed.                                            *)
C32_EntryCarriesCommittedRevision ==
    last.op = "write" => log[Len(log)].revision = domain.revision

(* The entry carries the revision captured before the bump. *)
EntryCarriesCapturedRevision ==
    last.op = "write" => log[Len(log)].revision = last.before.revision

-----------------------------------------------------------------------------
(* The log sink: LoggedTransactions from its construction on, with the     *)
(* calls of record_evidence and of finalize_replay in any order.           *)

SinkMessages == {SimpleString(OK), make_bulk_array(<<Chars("SET"), Chars("k"), Chars("v")>>)}

(* WriteTransactionSink::record_evidence(revision, message) *)
SRecord ==
    \E revision \in 0..MaxRevision, message \in SinkMessages :
        /\ last = NoCall
        /\ Len(log) < MaxLog
        /\ log' = record_evidence(domain, log, now, revision, message)
        /\ last' = [op |-> "record_evidence", revision |-> revision, message |-> message,
                    replaying |-> domain.replaying, log_before |-> log]
        /\ UNCHANGED <<domain, snapshots, now, codec, clients, lock, recovery>>

(* LoggedTransactions::finalize_replay *)
SFinalize ==
    /\ last = NoCall
    /\ domain' = finalize_replay(domain)
    /\ last' = [op |-> "finalize_replay", replaying |-> domain.replaying]
    /\ UNCHANGED <<log, snapshots, now, codec, clients, lock, recovery>>

SNext == SRecord \/ SFinalize \/ Return

SpecSink == ZInit /\ [][SNext]_vars

(* C33: until finalize_replay is called record_evidence appends nothing;   *)
(* after it every call appends exactly one entry, that of the call; and    *)
(* the flag replaying, once false, stays false.                            *)
C33_SinkSilentUntilFinalized ==
    [][/\ ~domain.replaying => ~domain'.replaying
       /\ last'.op = "finalize_replay" => ~domain'.replaying
       /\ (last.op = "none" /\ last'.op = "record_evidence") =>
             /\ last'.replaying = domain.replaying
             /\ IF domain.replaying
                THEN log' = log
                ELSE log' = Append(log, LogEntryNew(now, last'.revision, last'.message))]_vars

(* After finalize_replay a second call has appended its entry. *)
SinkLoggedAfterFinalize ==
    /\ last.op = "record_evidence"
    /\ ~domain.replaying
    /\ Len(log) = 2

-----------------------------------------------------------------------------
(* The snapshot specification: connection threads handle BGSAVE requests   *)
(* (server::apply, ServerManagement::BgSave).  The handler takes the       *)
(* shared guard of begin_reading; save_snapshot allocates the file name    *)
(* from a listing of the directory and then creates the file.              *)

MaxSaves == 2

Savers == {"s1", "s2"}

AlreadyExists == [kind |-> "AlreadyExists"]

BInit ==
    /\ domain = finalize_replay(InitDomain)
    /\ log = << >>
    /\ snapshots = EmptyMap
    /\ now = 0
    /\ last = NoCall
    /\ codec = IdleCodec
    /\ clients = [s \in Savers |-> [pc |-> "idle", done |-> 0]]
    /\ lock = NoLock
    /\ recovery = IdleRecovery

BRest == <<domain, log, now, last, codec, recovery>>

(* state.begin_reading()?: the shared guard, granted while no writer holds *)
(* the lock.                                                               *)
BBeginSave(s) ==
    /\ clients[s].pc = "idle"
    /\ clients[s].done < MaxSaves
    /\ lock.writer = "none"
    /\ lock' = [lock EXCEPT !.readers = @ \cup {s}]
    /\ clients' = [clients EXCEPT ![s].pc = "guarded"]
    /\ UNCHANGED snapshots /\ UNCHANGED BRest

(* snapshots::allocate_new: the name after the most recent file listed. *)
BAllocate(s) ==
    /\ clients[s].pc = "guarded"
    /\ clients' = [clients EXCEPT ![s] =
                      [pc |-> "allocated", done |-> @.done, file |-> allocate_new(snapshots)]]
    /\ UNCHANGED <<snapshots, lock>> /\ UNCHANGED BRest

(* SnapshotFile::put: File::options().write(true).create_new(true) fails   *)
(* when the file is there; save_snapshot()? passes the error on.           *)
BPut(s) ==
    /\ clients[s].pc = "allocated"
    /\ IF clients[s].file \in DOMAIN snapshots
       THEN /\ UNCHANGED snapshots
            /\ clients' = [clients EXCEPT ![s] =
                              [pc |-> "answered", done |-> @.done, file |-> @.file,
                               present |-> DOMAIN snapshots, ok |-> FALSE,
                               error |-> AlreadyExists]]
       ELSE /\ snapshots' = Put(snapshots, clients[s].file, Persistent(domain))
            /\ clients' = [clients EXCEPT ![s] =
                              [pc |-> "answered", done |-> @.done, file |-> @.file,
                               present |-> DOMAIN snapshots, ok |-> TRUE,
                               response |-> SimpleString(OK)]]
    /\ UNCHANGED lock /\ UNCHANGED BRest

(* The guard is dropped at the end of the handler. *)
BEndSave(s) ==
    /\ clients[s].pc = "answered"
    /\ lock' = [lock EXCEPT !.readers = @ \ {s}]
    /\ clients' = [clients EXCEPT ![s] = [pc |-> "idle", done |-> @.done + 1]]
    /\ UNCHANGED snapshots /\ UNCHANGED BRest

BNext == \E s \in Savers : BBeginSave(s) \/ BAllocate(s) \/ BPut(s) \/ BEndSave(s)

SpecSnapshots == BInit /\ [][BNext]_vars

(* C34: every BGSAVE succeeds and creates the file one after the highest   *)
(* ordinal present, 0 when there is none, and two requests running at the  *)
(* same time are never given the same ordinal.                             *)
C34_SavesAllocateDistinctOrdinals ==
    /\ \A s \in Savers :
          clients[s].pc = "answered" =>
              /\ clients[s].ok
              /\ clients[s].file \notin clients[s].present
              /\ clients[s].file = IF clients[s].present = {} THEN 0
                                   ELSE MaxOf(clients[s].present) + 1
    /\ \A s, t \in Savers :
          (s # t /\ clients[s].pc = "allocated" /\ clients[t].pc \in {"allocated", "answered"}) =>
              clients[s].file # clients[t].file

(* A file that was written stays as it was written: a save that finds its  *)
(* name taken fails and writes nothing.                                    *)
SavedFileNotOverwritten ==
    \A s \in Savers :
        (clients[s].pc = "answered" /\ clients[s].ok) =>
            /\ clients[s].file \notin clients[s].present
            /\ clients[s].file = IF clients[s].present = {} THEN 0
                                 ELSE MaxOf(clients[s].present) + 1

-----------------------------------------------------------------------------
(* The framing of bulk strings: the decoder is given a header $N and one   *)
(* content line, alone or as the one element of an array.                  *)

MaxDeclared == 3

MaxContent == 2

ContentChars == {"a", "$", "\r"}

(* "$N\r\ncontent\r\n" *)
BulkImage(declared, content) == <<"$">> \o FormatInt(declared) \o CRLF \o content \o CRLF

FDecode ==
    \E declared \in (0 - 1)..MaxDeclared, content \in SeqsUpTo(ContentChars, MaxContent),
       wrapped \in BOOLEAN :
        LET image == IF wrapped THEN <<"*", "1">> \o CRLF \o BulkImage(declared, content)
                     ELSE BulkImage(declared, content)
        IN  /\ codec = IdleCodec
            /\ codec' = [phase |-> "framed", declared |-> declared, content |-> content,
                         wrapped |-> wrapped, wire |-> image,
                         decoded |-> parse_message_phrase(image)]
            /\ UNCHANGED <<domain, log, snapshots, now, last, clients, lock, recovery>>

FReset ==
    /\ codec.phase = "framed"
    /\ codec' = IdleCodec
    /\ UNCHANGED <<domain, log, snapshots, now, last, clients, lock, recovery>>

FNext == FDecode \/ FReset

SpecFraming == ZInit /\ [][FNext]_vars

(* The bulk string the decoder made of the image, if it made one. *)
Framed(c) ==
    IF ~c.decoded.ok THEN [some |-> FALSE]
    ELSE LET message == IF c.wrapped /\ c.decoded.message.type = "Array"
                                     /\ c.decoded.message.elements # <<>>
                        THEN c.decoded.message.elements[1] ELSE c.decoded.message
         IN  IF message.type = "BulkString" THEN [some |-> TRUE, text |-> message.text]
             ELSE [some |-> FALSE]

(* C35: a decoded bulk string has the length its header declares; a        *)
(* content line of another length is not returned as that bulk string.     *)
C35_BulkLengthHonoured ==
    (codec.phase = "framed" /\ Framed(codec).some) =>
        Len(Framed(codec).text) = codec.declared

(* When the content has the declared length, and holds no line break, the  *)
(* decoder returns it.                                                     *)
ExactBulkDecoded ==
    (codec.phase = "framed" /\ Len(codec.content) = codec.declared) =>
        Framed(codec) = [some |-> TRUE, text |-> codec.content]

-----------------------------------------------------------------------------
(* The reader on streams that need not be well formed: the lines of a      *)
(* message, all or some, after a first line that starts no message, or     *)
(* after none.                                                             *)

(* Lines without a kind tag or with a length that is no number. *)
MalformedLines == {Chars("hello"), Chars("$x"), Chars("*x"), Chars(":x")}

StreamMessages ==
    {SimpleString(OK), BulkString(<<"a">>), Nil, Array(<<Integer(0), BulkString(<<"a">>)>>)}

GOpen ==
    \E m \in StreamMessages, leading \in SeqsUpTo(MalformedLines, 1) :
        \E supplied \in 0..(Len(leading) + Len(Lines(encode(m)))) :
            /\ codec = IdleCodec
            /\ codec' = [phase |-> "reading", msg |-> m, wire |-> encode(m),
                         leading |-> leading,
                         whole |-> Len(leading) + Len(Lines(encode(m))),
                         pending |-> SubSeq(leading \o Lines(encode(m)), 1, supplied),
                         supplied |-> supplied, consumed |-> 0, buffer |-> <<>>]
            /\ UNCHANGED MRest

GNextReader == GOpen \/ MReadLine \/ MEndOfFile \/ MClose

SpecReaderErrors == ZInit /\ [][GNextReader]_vars

(* The tokens held start with a line that begins no message. *)
CannotStart(buffer) == buffer # <<>> /\ buffer[1].kind = "Literal"

(* C36: read_message ends with the next whole message or with an error:    *)
(* InvalidData once the lines held cannot start a message, UnexpectedEof   *)
(* when the stream ends before the message is whole.                       *)
C36_ReaderEndsWithMessageOrError ==
    /\ CannotStart(IF codec.phase = "idle" THEN <<>> ELSE codec.buffer) =>
          codec.phase = "failed" /\ codec.error = "InvalidData"
    /\ (codec.phase = "failed" /\ ~CannotStart(codec.buffer)) =>
          codec.error = "UnexpectedEof" /\ codec.supplied < codec.whole
    /\ codec.phase = "returned" =>
          /\ codec.leading = <<>>
          /\ codec.result = codec.msg

(* On the streams that hold lines of a message only, the reader returns    *)
(* the message or ends with UnexpectedEof when lines are missing.          *)
ReaderOfWellFormedStream ==
    (codec.phase # "idle" /\ codec.leading = <<>>) =>
        /\ codec.phase = "returned" => codec.result = codec.msg /\ codec.supplied = codec.whole
        /\ codec.phase = "failed" => codec.error = "UnexpectedEof" /\ codec.supplied < codec.whole

-----------------------------------------------------------------------------
(* The scan specification: keys are written, then a client iterates SCAN   *)
(* without a pattern, passing each time the cursor of the reply before.    *)

ScanStringKeys == {Chars("k"), Chars("j"), Chars("i")}

ScanListKeys == {Chars("l")}

(* SCAN cursor, and SCAN cursor COUNT count *)
ScanCounts == {[some |-> FALSE], [some |-> TRUE, value |-> 1], [some |-> TRUE, value |-> 2]}

XRest == <<log, snapshots, now, codec, clients, lock, recovery>>

(* KeyValues::set and Lists::append fill the maps. *)
XSet ==
    \E key \in ScanStringKeys :
        /\ last = NoCall
        /\ key \notin DOMAIN domain.strings
        /\ domain' = set(domain, key, Chars("v"), now)
        /\ UNCHANGED last /\ UNCHANGED XRest

XAppend ==
    \E key \in ScanListKeys :
        /\ last = NoCall
        /\ key \notin DOMAIN domain.lists
        /\ domain' = append(domain, key, Chars("x"), FALSE, now).domain
        /\ UNCHANGED last /\ UNCHANGED XRest

(* The client starts at cursor 0. *)
XBegin ==
    \E count \in ScanCounts :
        /\ last = NoCall
        /\ last' = [op |-> "scan", count |-> count, cursor |-> 0, seen |-> <<>>,
                    replies |-> 0, finished |-> FALSE]
        /\ UNCHANGED domain /\ UNCHANGED XRest

(* generic::apply, Generic::Scan: one request and its reply. *)
XScan ==
    /\ last.op = "scan"
    /\ ~last.finished
    /\ LET reply == ScanMessage(scan_keys(domain, last.cursor, [some |-> FALSE], last.count))
           keys  == reply.elements[2].elements
       IN  last' = [last EXCEPT !.cursor = reply.elements[1].value,
                                !.seen = @ \o [i \in 1..Len(keys) |-> keys[i].text],
                                !.replies = @ + 1,
                                !.finished = (reply.elements[1].value = 0)]
    /\ UNCHANGED domain /\ UNCHANGED XRest

(* The client is done with the iteration. *)
XEnd ==
    /\ last.op = "scan"
    /\ last.finished
    /\ last' = NoCall
    /\ UNCHANGED domain /\ UNCHANGED XRest

XNext == XSet \/ XAppend \/ XBegin \/ XScan \/ XEnd

SpecScan == ZInit /\ [][XNext]_vars

(* C37: when the iteration has ended with cursor 0, the replies together   *)
(* hold every key of the strings and lists maps exactly once.              *)
C37_ScanCoversEveryKeyOnce ==
    (last.op = "scan" /\ last.finished) =>
        /\ Range(last.seen) = DOMAIN domain.strings \cup DOMAIN domain.lists
        /\ Len(last.seen) = Cardinality(DOMAIN domain.strings \cup DOMAIN domain.lists)

(* The iteration ends: each reply moves the cursor on, and no more replies *)
(* are needed than there are keys, and one.                                *)
ScanIterationEnds ==
    last.op = "scan" =>
        last.replies <= Cardinality(DOMAIN domain.strings) + Cardinality(DOMAIN domain.lists) + 1

(* With the default chunk size and fewer keys than it, one reply holds     *)
(* every key once.                                                         *)
ScanInOneReply ==
    (last.op = "scan" /\ last.finished /\ ~last.count.some) =>
        /\ last.replies = 1
        /\ Range(last.seen) = DOMAIN domain.strings \cup DOMAIN domain.lists
        /\ Len(last.seen) = Cardinality(DOMAIN domain.strings \cup DOMAIN domain.lists)

-----------------------------------------------------------------------------
(* The time-to-live specification: clients SET and EXPIRE keys and ask for *)
(* their TTL while the clock advances; clients holds, for each key, the    *)
(* last TTL answer given since the key's last EXPIRE.                      *)

VRest == <<log, snapshots, codec, lock, recovery>>

(* keyvalues::apply, StringsApi::Set: KeyValues::set inserts, then         *)
(* expunges what is due.                                                   *)
VSet ==
    \E key \in EKeys :
        /\ last = NoCall
        /\ domain' = set(domain, key, Chars("v"), now)
        /\ last' = [op |-> "set", key |-> key, before |-> domain, at |-> now,
                    alone |-> [domain EXCEPT !.strings = Put(domain.strings, key, Chars("v"))]]
        /\ UNCHANGED <<now, clients>> /\ UNCHANGED VRest

(* generic::apply, Generic::Expire *)
VExpire ==
    \E key \in EKeys, ttl \in EDurations :
        /\ last = NoCall
        /\ domain' = register_ttl(domain, key, now, ttl)
        /\ clients' = Del(clients, key)
        /\ last' = [op |-> "expire", key |-> key, before |-> domain, at |-> now]
        /\ UNCHANGED now /\ UNCHANGED VRest

(* generic::apply, Generic::Ttl *)
VTtl ==
    \E key \in EKeys :
        /\ last = NoCall
        /\ clients' = Put(clients, key, TtlMessage(get_ttl(domain, key, now)))
        /\ last' = [op |-> "ttl", key |-> key, at |-> now,
                    response |-> TtlMessage(get_ttl(domain, key, now))]
        /\ UNCHANGED <<domain, now>> /\ UNCHANGED VRest

(* Lifetimes::expunge_expired(now), as the mutating operations call it. *)
VExpunge ==
    /\ last = NoCall
    /\ domain' = expunge_expired(domain, now)
    /\ last' = [op |-> "expunge_expired", before |-> domain, at |-> now, alone |-> domain]
    /\ UNCHANGED <<now, clients>> /\ UNCHANGED VRest

VTick ==
    /\ last = NoCall
    /\ now < MaxTime
    /\ now' = now + 1
    /\ UNCHANGED <<domain, last, clients>> /\ UNCHANGED VRest

VReturn ==
    /\ last # NoCall
    /\ last' = NoCall
    /\ UNCHANGED <<domain, now, clients>> /\ UNCHANGED VRest

VNext == VSet \/ VExpire \/ VTtl \/ VExpunge \/ VTick \/ VReturn

SpecTtl == ZInit /\ [][VNext]_vars

(* C38: a key whose last TTL answer, with no EXPIRE since, was -1 is not   *)
(* removed by expunge_expired.                                             *)
C38_EternalKeyNeverExpunged ==
    last.op \in {"set", "expunge_expired"} =>
        \A key \in DOMAIN clients :
            (clients[key] = Integer(0 - 1) /\ Held(last.alone, key)) => Held(domain, key)

(* expunge_expired removes a key only when the instant registered for it   *)
(* in ttls is before the time of the call.                                 *)
ExpungedOnlyWhenElapsed ==
    last.op \in {"set", "expunge_expired"} =>
        \A key \in EKeys :
            (Held(last.alone, key) /\ ~Held(domain, key)) =>
                (key \in DOMAIN last.before.ttls /\ last.before.ttls[key] < last.at)

-----------------------------------------------------------------------------
(* C39: after any calls of set, append, prepend and add every key is bound *)
(* in at most one of the maps strings, lists and sorted_sets.              *)
C39_KeyBoundInOneMap ==
    \A key \in EKeys :
        /\ ~(key \in DOMAIN domain.strings /\ key \in DOMAIN domain.lists)
        /\ ~(key \in DOMAIN domain.strings /\ key \in DOMAIN domain.sorted_sets)
        /\ ~(key \in DOMAIN domain.lists /\ key \in DOMAIN domain.sorted_sets)

(* KEYS * reports one name for each binding in strings and in lists. *)
KeysReportsEveryBinding ==
    Len(filter_keys(domain, Chars("*"))) =
        Cardinality(DOMAIN domain.strings) + Cardinality(DOMAIN domain.lists)

-----------------------------------------------------------------------------
(* The restart specification: a server process commits SET and EXPIRE      *)
(* writes while the clock advances; it stops, and a new process recovers   *)
(* from the data directory at a later time.                                *)

LifetimeRequests ==
    {make_bulk_array(<<SET, <<"s">>, <<"x">>>>),
     make_bulk_array(<<SET, <<"t">>, <<"x">>>>),
     make_bulk_array(<<Chars("EXPIRE"), <<"s">>, <<"1">>>>)}

JRest == <<last, codec, clients, lock>>

(* A connection handler executes one write request. *)
JWrite ==
    \E message \in LifetimeRequests :
        LET r == Execute(domain, log, now, message) IN
        /\ recovery.phase = "running"
        /\ Len(log) < MaxWrites
        /\ domain' = r.domain
        /\ log' = r.log
        /\ recovery' = [recovery EXCEPT !.since_save = @ + 1]
        /\ UNCHANGED <<snapshots, now>> /\ UNCHANGED JRest

(* The wall clock advances, while the server runs and while it is down. *)
JTick ==
    /\ recovery.phase \in {"running", "restoring"}
    /\ now < MaxTime
    /\ now' = now + 1
    /\ UNCHANGED <<domain, log, snapshots, recovery>> /\ UNCHANGED JRest

(* The process stops and main starts again: a new, empty domain. *)
JRestart ==
    /\ recovery.phase = "running"
    /\ domain' = InitDomain
    /\ recovery' = [phase |-> "restoring", before |-> Persistent(domain), at |-> now,
                    expected |-> recovery.since_save, replayed |-> 0, queue |-> <<>>]
    /\ UNCHANGED <<log, snapshots, now>> /\ UNCHANGED JRest

JNext == JWrite \/ JTick \/ JRestart \/ DRestore \/ DReplay \/ DFinalize

SpecRestart == DInit /\ [][JNext]_vars

(* C40: after a restart that replays the log every key with an expiration  *)
(* has the instant it had before the restart, and a key expunged before    *)
(* the restart is absent.                                                  *)
C40_ReplayKeepsExpirationInstant ==
    recovery.phase = "recovered" =>
        /\ \A key \in DOMAIN domain.ttls :
              key \in DOMAIN recovery.before.ttls /\ domain.ttls[key] = recovery.before.ttls[key]
        /\ \A key \in DOMAIN domain.strings :
              key \in DOMAIN recovery.before.ttls => key \in DOMAIN recovery.before.strings

(* A replayed EXPIRE counts its seconds from the time of the replay: the   *)
(* instant it registers is after the restart.                              *)
ReplayedExpireCountsFromReplay ==
    recovery.phase = "recovered" =>
        \A key \in DOMAIN domain.ttls : domain.ttls[key] > recovery.at

(* A replay at the instant of the writes registers the instants they       *)
(* registered.                                                             *)
ReplayAtOnceKeepsInstant ==
    (recovery.phase = "recovered" /\ now = 0) =>
        \A key \in DOMAIN domain.ttls :
            key \in DOMAIN recovery.before.ttls /\ domain.ttls[key] = recovery.before.ttls[key]

====
